---- MODULE Spec2Model ----
(***************************************************************************)
(* Retrieval core of media-mind-ai: the text segmenter (PDFService), the   *)
(* FAISS vector store with the semantic search orchestrator, and the       *)
(* timestamp aligner (TimestampService).  Each component has its own       *)
(* specification over the shared variable tuple; the variables of the      *)
(* other components stay at their idle values.                             *)
(***************************************************************************)
EXTENDS Integers, Sequences, FiniteSets, TLC

(***************************************************************************)
(* Bounds of the model.                                                    *)
(***************************************************************************)
MaxTextLen == 5
MaxChunkSize == 4
MaxChunks == 8
E2EMaxPeriod == 12
MaxEmbeds == 3
MaxIndexSize == 3
MaxAddRows == 2
MaxTopK == 3
MaxFiles == 2
MaxChunkId == 2
MaxNewChunks == 2
MaxOverlapLen == 3
MaxMergeTime == 3
MaxMergeSegs == 3
MaxGap == 2
MaxFindSegs == 3
MaxWindow == 12
MaxIxChunks == 2

MaxIxRows == 2

MaxPpCallers == 2

MaxPpRuns == 3

MaxPpChunks == 2

(***************************************************************************)
(* Program constants.                                                      *)
(***************************************************************************)
DefaultChunkSize == 1000
DefaultChunkOverlap == 200
SearchTopK == 5

VARIABLES
    seg_text,      \* the extracted text handed to _split_text_into_chunks
    seg_cs,        \* chunk_size
    seg_ov,        \* chunk_overlap
    seg_start,     \* `start` of the while loop of _chunk_fixed_size
    seg_chunks,    \* `chunks`: the chunk dictionaries emitted so far
    seg_records,   \* the DocumentChunk rows process_pdf creates from them
    seg_pc,        \* "idle" | "call" | "loop" | "done"
    seg_req,       \* chunk_size and chunk_overlap of the ProcessPDFRequest
    vs_index,      \* VectorStore.index: None, or the FAISS IndexFlatL2
    vs_dimension,  \* VectorStore.dimension
    vs_map,        \* VectorStore.chunk_id_map: FAISS position -> chunk_id
    vs_call,       \* the last VectorStore call, its arguments and outcome
    db_embeddings, \* the chunk_embeddings rows, in id order
    db_chunks,     \* the document_chunks rows: chunk id -> file_id
    db_files,      \* the ids of the file_metadata rows
    os_call,       \* the last SemanticSearchService.search call
    ts_fn,         \* the TimestampService function being applied
    ts_args,       \* its arguments
    ts_ret,        \* its return value, once ts_pc = "return"
    ts_pc,         \* "idle" | "call" | "return"
    vs_live,       \* the module global _vector_store is not None
    disk_index,    \* the index file at settings.faiss_index_path
    disk_map,      \* the mapping file next to it (.json)
    ps_call,       \* the last status or search call
    ps_persisted,  \* index and mapping in memory when a handler last reached
                   \* its save point
    ix_gen,        \* the generate_embeddings_for_chunks coroutine in flight
    ix_reb,        \* the build_index coroutine of POST /rebuild in flight
    ix_srch,       \* the SemanticSearchService.search coroutine in flight
    pp_rows,       \* the committed document_chunks rows, by segmentation run
    pp_proc,       \* the re-segmentation coroutine of each caller
    pp_run,        \* the number of re-segmentation calls started
    st_strategy,   \* `strategy` of the ProcessPDFRequest
    st_units,      \* the sentences the for loop has still to visit
    st_current,    \* `current_chunk` of _chunk_by_sentence
    st_size,       \* `current_size` of _chunk_by_sentence
    tr_rows,       \* the transcriptions rows, in id order
    tr_proc,       \* the transcribe_file coroutine of each caller
    tr_runs,       \* the number of transcribe_file calls started
    tr_chunks,     \* per file: the run that created its chunks, their number
    tr_embedded,   \* per file: how many of its chunks have an embedding row
    tr_key,        \* settings.openai_api_key is set
    tr_gen         \* the last POST /files/{file_id}/embeddings and its response

seg_vars ==
    <<seg_text, seg_cs, seg_ov, seg_start, seg_chunks, seg_records, seg_pc, seg_req>>

vs_vars == <<vs_index, vs_dimension, vs_map, vs_call>>

db_vars == <<db_embeddings, db_chunks, db_files>>

ts_vars == <<ts_fn, ts_args, ts_ret, ts_pc>>

ps_vars == <<vs_live, disk_index, disk_map, ps_call, ps_persisted>>

ix_vars == <<ix_gen, ix_reb, ix_srch>>

pp_vars == <<pp_rows, pp_proc, pp_run>>

st_vars == <<st_strategy, st_units, st_current, st_size>>

tr_vars == <<tr_rows, tr_proc, tr_runs, tr_chunks, tr_embedded, tr_key, tr_gen>>

vars == <<seg_vars, vs_vars, db_vars, os_call, ts_vars, ps_vars, ix_vars, pp_vars, st_vars, tr_vars>>

StIdle ==
    /\ st_strategy = "None"
    /\ st_units = << >>
    /\ st_current = << >>
    /\ st_size = 0

TsIdle ==
    /\ ts_fn = "none"
    /\ ts_args = << >>
    /\ ts_ret = << >>
    /\ ts_pc = "idle"

\* An Optional[int] of the request: omitted (None), or the value given.
Omitted == [given |-> FALSE, value |-> 0]

Arg(v) == [given |-> TRUE, value |-> v]

NoRequest == [chunk_size |-> Omitted, chunk_overlap |-> Omitted]

SegIdle ==
    /\ seg_text = << >>
    /\ seg_cs = 0
    /\ seg_ov = 0
    /\ seg_start = 0
    /\ seg_chunks = << >>
    /\ seg_records = << >>
    /\ seg_pc = "idle"
    /\ seg_req = NoRequest

(***************************************************************************)
(* Python string primitives.  A text is a sequence of one-character        *)
(* strings.                                                                *)
(***************************************************************************)
Whitespace == {" ", "\n"}

Chars == {"a", " ", "\n"}

Min(a, b) == IF a < b THEN a ELSE b

Max(a, b) == IF a > b THEN a ELSE b

\* Python's normalisation of a slice bound against a length.
SliceBound(i, n) == IF i < 0 THEN Max(0, n + i) ELSE Min(i, n)

\* t[s:e], 0-based, negative bounds counted from the end.
PySlice(t, s, e) ==
    LET lo == SliceBound(s, Len(t))
        hi == SliceBound(e, Len(t))
    IN  IF lo < hi THEN SubSeq(t, lo + 1, hi) ELSE << >>

\* t.rfind(' '): the 0-based index of the last space, -1 when there is none.
RFindSpace(t) ==
    LET hits == {i \in 1..Len(t) : t[i] = " "}
    IN  IF hits = {} THEN -1
        ELSE (CHOOSE i \in hits : \A j \in hits : j <= i) - 1

\* t.strip(): leading and trailing whitespace removed.
Strip(t) ==
    LET keep == {i \in 1..Len(t) : t[i] \notin Whitespace}
    IN  IF keep = {} THEN << >>
        ELSE SubSeq(t, CHOOSE i \in keep : \A j \in keep : i <= j,
                       CHOOSE i \in keep : \A j \in keep : j <= i)

\* The fallback of _estimate_tokens: len(text) // 4.
EstimateTokens(t) == Len(t) \div 4

(***************************************************************************)
(* PDFService._chunk_fixed_size: one iteration of the while loop.          *)
(* last_space > chunk_size * 0.7 is compared over the integers as          *)
(* 10 * last_space > 7 * chunk_size; the two agree for every chunk_size    *)
(* used here (they differ only where 0.7 * chunk_size rounds below an      *)
(* integer, e.g. chunk_size = 90).                                         *)
(***************************************************************************)
FixedTrims(t, start, cs) ==
    /\ start + cs < Len(t)
    /\ 10 * RFindSpace(PySlice(t, start, start + cs)) > 7 * cs

FixedChunkText(t, start, cs) ==
    LET window == PySlice(t, start, start + cs)
    IN  IF FixedTrims(t, start, cs)
        THEN PySlice(window, 0, RFindSpace(window))
        ELSE window

\* Mutant of FixedEnd: the next window resumes after the space it trimmed at.
FixedEndSkipsSpace(t, start, cs) ==
    IF FixedTrims(t, start, cs)
    THEN start + RFindSpace(PySlice(t, start, start + cs)) + 1
    ELSE start + cs

FixedEnd(t, start, cs) ==
    IF FixedTrims(t, start, cs)
    THEN start + RFindSpace(PySlice(t, start, start + cs))
    ELSE start + cs

FixedChunk(t, start, cs) ==
    LET chunk_text == FixedChunkText(t, start, cs)
    IN  [text        |-> Strip(chunk_text),
         start_char  |-> start,
         end_char    |-> start + Len(chunk_text),
         token_count |-> EstimateTokens(chunk_text)]

FixedNextStart(t, start, cs, ov) == FixedEnd(t, start, cs) - ov

\* process_pdf: one DocumentChunk per chunk dictionary, in emission order.
ChunkRecords(chunks_data) ==
    [i \in 1..Len(chunks_data) |->
        [chunk_index |-> i - 1,
         text        |-> chunks_data[i].text,
         char_count  |-> Len(chunks_data[i].text),
         token_count |-> chunks_data[i].token_count,
         start_char  |-> chunks_data[i].start_char,
         end_char    |-> chunks_data[i].end_char]]

(***************************************************************************)
(* VectorStore (vector_store.py).  An embedding vector is a sequence of    *)
(* integers; the FAISS IndexFlatL2 is its dimension d and the rows added   *)
(* to it, in position order.                                               *)
(***************************************************************************)
None == "None"

NoDimension == 0

NoTopK == -1

NoIndex == [is_none |-> TRUE, d |-> 0, vecs |-> << >>]

IndexFlatL2(d) == [is_none |-> FALSE, d |-> d, vecs |-> << >>]

NTotal(index) == Len(index.vecs)

EmptyMap == [p \in {} |-> 0]

MapPut(map, p, c) ==
    [q \in (DOMAIN map) \cup {p} |-> IF q = p THEN c ELSE map[q]]

RECURSIVE SqDist(_, _)
\* Squared Euclidean distance, as IndexFlatL2 reports it.
SqDist(u, v) ==
    IF u = << >> THEN 0
    ELSE (Head(u) - Head(v)) * (Head(u) - Head(v)) + SqDist(Tail(u), Tail(v))

\* build_index: index, dimension and chunk_id_map after the call, and the
\* exception it ends with (None when it returns).  np.array raises ValueError
\* on rows of differing length, after dimension and chunk_id_map were
\* overwritten.
BuildIndex(index, dimension, map, embeddings) ==
    IF embeddings = << >>
    THEN [index |-> NoIndex, dimension |-> dimension, map |-> map, err |-> None]
    ELSE
        LET d == Len(embeddings[1].vec)
            new_map == [p \in 0..(Len(embeddings) - 1) |->
                            embeddings[p + 1].chunk_id]
        IN  IF \E i \in 1..Len(embeddings) : Len(embeddings[i].vec) # d
            THEN [index |-> index, dimension |-> d, map |-> new_map,
                  err |-> "ValueError: inhomogeneous shape"]
            ELSE [index |-> [IndexFlatL2(d) EXCEPT
                               !.vecs = [i \in 1..Len(embeddings) |->
                                            embeddings[i].vec]],
                  dimension |-> d, map |-> new_map, err |-> None]

\* Mutant of AddEmbedding: the vector is appended before the dimension check.
AddEmbeddingChecksLate(index, dimension, map, chunk_id, v) ==
    IF index.is_none
    THEN [index |-> [IndexFlatL2(Len(v)) EXCEPT !.vecs = <<v>>],
          dimension |-> Len(v), map |-> MapPut(EmptyMap, 0, chunk_id),
          err |-> None]
    ELSE [index |-> [index EXCEPT !.vecs = Append(@, v)],
          dimension |-> dimension,
          map |-> MapPut(map, NTotal(index), chunk_id),
          err |-> IF dimension # Len(v) \/ index.d # Len(v)
                  THEN "ValueError: Embedding dimension mismatch" ELSE None]

\* add_embedding.  index.add asserts that the row has the index's own d.
AddEmbedding(index, dimension, map, chunk_id, v) ==
    IF index.is_none
    THEN [index |-> [IndexFlatL2(Len(v)) EXCEPT !.vecs = <<v>>],
          dimension |-> Len(v), map |-> MapPut(EmptyMap, 0, chunk_id),
          err |-> None]
    ELSE IF dimension # Len(v)
    THEN [index |-> index, dimension |-> dimension, map |-> map,
          err |-> "ValueError: Embedding dimension mismatch"]
    ELSE IF index.d # Len(v)
    THEN [index |-> index, dimension |-> dimension, map |-> map,
          err |-> "AssertionError: d == self.d"]
    ELSE [index |-> [index EXCEPT !.vecs = Append(@, v)],
          dimension |-> dimension,
          map |-> MapPut(map, NTotal(index), chunk_id),
          err |-> None]

\* top_k = top_k or settings.search_top_k: None and 0 are both falsy.
EffectiveTopK(top_k) == IF top_k = NoTopK \/ top_k = 0 THEN SearchTopK ELSE top_k

\* index.search(query, k): every order of k positions that is ascending by
\* distance and leaves out no closer row.  FAISS fixes no order among rows
\* at equal distance.
FaissSearch(index, q, k) ==
    LET P == 0..(NTotal(index) - 1)
        dist(p) == SqDist(index.vecs[p + 1], q)
    IN  {r \in [1..k -> P] :
            /\ \A i, j \in 1..k : i < j => r[i] # r[j] /\ dist(r[i]) <= dist(r[j])
            /\ \A p \in P : (\A i \in 1..k : r[i] # p) =>
                              \A i \in 1..k : dist(r[i]) <= dist(p)}

RECURSIVE MapResults(_, _, _, _)
\* The loop over zip(indices[0], distances[0]), keeping mapped positions.
MapResults(index, map, q, r) ==
    IF r = << >> THEN << >>
    ELSE LET rest == MapResults(index, map, q, Tail(r))
         IN  IF Head(r) \in DOMAIN map
             THEN <<[chunk_id |-> map[Head(r)],
                     distance |-> SqDist(index.vecs[Head(r) + 1], q)]>> \o rest
             ELSE rest

\* search: the outcomes the call can have, each an exception or a result list.
Search(index, map, q, top_k) ==
    IF index.is_none \/ NTotal(index) = 0
    THEN {[err |-> None, results |-> << >>]}
    ELSE IF Len(q) # index.d
    THEN {[err |-> "AssertionError: d == self.d", results |-> << >>]}
    ELSE {[err |-> None, results |-> MapResults(index, map, q, r)] :
            r \in FaissSearch(index, q, Min(EffectiveTopK(top_k), NTotal(index)))}

(***************************************************************************)
(* VectorStore calls, in any order and with any arguments, over a fixed    *)
(* chunk_embeddings table.                                                 *)
(***************************************************************************)
Vectors == {<<0>>, <<1>>, <<0, 0>>, <<0, 1>>, <<1, 0>>, <<1, 1>>}

VsVectors == {<<0>>, <<1>>, <<0, 0>>, <<0, 1>>}

VsQueries == {<<1>>, <<0, 1>>}

AddChunkIds == {1, 2}

TopKs == {NoTopK} \cup 0..MaxTopK

Embedding(chunk_id, v) == [chunk_id |-> chunk_id, vec |-> v]

\* The position of chunk_id c in table E (chunk_id is unique), 0 if absent.
RowOf(E, c) ==
    IF \E p \in 1..Len(E) : E[p].chunk_id = c
    THEN CHOOSE p \in 1..Len(E) : E[p].chunk_id = c
    ELSE 0

\* Tables of chunk_embeddings rows for the free-form calls: empty, of
\* dimension 1, of dimension 2, and of mixed dimension.
VsTables ==
    {<< >>,
     <<Embedding(11, <<1>>)>>,
     <<Embedding(12, <<0, 0>>), Embedding(11, <<1, 1>>)>>,
     <<Embedding(11, <<0>>), Embedding(12, <<0, 1>>)>>}

NoCall ==
    [op |-> "none", chunk_id |-> 0, vec |-> << >>, top_k |-> NoTopK,
     err |-> None, results |-> << >>]

MaxTrCallers == 2

MaxTrRuns == 3

MaxTrChunks == 1

TrCallers == 1..MaxTrCallers

\* File 1 is an audio file, file 2 a PDF.
TrFiles == {1, 2}

IsAudio(f) == f = 1

\* A Transcription as transcribe_file creates it.
NewTranscription(f) ==
    [file_id |-> f, status |-> "processing", error_message |-> None,
     full_text |-> 0]

NoTranscription ==
    [file_id |-> 0, status |-> None, error_message |-> None, full_text |-> 0]

NoTrCall ==
    [pc |-> "idle", file |-> 0, run |-> 0, row |-> 0,
     loaded |-> NoTranscription, n |-> 0, outcome |-> None, err |-> None]

NoChunks == [run |-> 0, n |-> 0]

NoGenerateCall ==
    [file |-> 0, cause |-> None, exc |-> None, status_code |-> 0]

TrIdle ==
    /\ tr_rows = << >>
    /\ tr_proc = [p \in TrCallers |-> NoTrCall]
    /\ tr_runs = 0
    /\ tr_chunks = [f \in TrFiles |-> NoChunks]
    /\ tr_embedded = [f \in TrFiles |-> 0]
    /\ tr_key = TRUE
    /\ tr_gen = NoGenerateCall

\* __init__, and load_index without a snapshot on disk.
VsIdle ==
    /\ vs_index = NoIndex
    /\ vs_dimension = NoDimension
    /\ vs_map = EmptyMap
    /\ vs_call = NoCall

DbIdle == db_embeddings = << >>

NoMapFile == [exists |-> FALSE, map |-> EmptyMap]

NoPsCall ==
    [op |-> "none", loaded |-> FALSE, lazy |-> FALSE, vec |-> << >>,
     top_k |-> NoTopK, err |-> None, results |-> << >>]

NothingPersisted == [index |-> NoIndex, map |-> EmptyMap, written |-> FALSE]

PsIdle ==
    /\ vs_live = TRUE
    /\ disk_index = NoIndex
    /\ disk_map = NoMapFile
    /\ ps_call = NoPsCall
    /\ ps_persisted = NothingPersisted

NoGenerate == [pc |-> "idle", ids |-> << >>, pending |-> << >>, added |-> {}]

NoRebuild == [pc |-> "idle", rows |-> << >>]

NoIxSearch == [pc |-> "idle", rows |-> << >>, err |-> None, results |-> << >>]

IxIdle ==
    /\ ix_gen = NoGenerate
    /\ ix_reb = NoRebuild
    /\ ix_srch = NoIxSearch

PpCallers == 1..MaxPpCallers

NoProcess ==
    [pc |-> "idle", kind |-> "none", file |-> 0, run |-> 0, n |-> 0,
     before |-> {}, err |-> None]

PpIdle ==
    /\ pp_rows = {}
    /\ pp_proc = [p \in PpCallers |-> NoProcess]
    /\ pp_run = 0

\* The files that have been uploaded.
Files == 1..MaxFiles

NoFile == -1

NoSearch ==
    [op |-> "none", vec |-> << >>, top_k |-> NoTopK, file_id |-> NoFile,
     err |-> None, raw |-> << >>, results |-> << >>]

OsIdle ==
    /\ db_chunks = EmptyMap
    /\ db_files = Files
    /\ os_call = NoSearch

\* save_index.  outcome is what the file system does with the two writes:
\* both succeed, or the index is written and the write of the mapping fails;
\* the exception is logged and swallowed.
SaveIndex(index, map, d_index, d_map, outcome) ==
    IF index.is_none
    THEN [index |-> d_index, map |-> d_map]
    ELSE IF outcome = "mapping_failed"
    THEN [index |-> index, map |-> d_map]
    ELSE [index |-> index, map |-> [exists |-> TRUE, map |-> map]]

\* The snapshot files after a handler that ends with save_index() when
\* `saves` holds, both writes succeeding.
WriteSnapshot(index, map, saves) ==
    LET d == SaveIndex(index, map, disk_index, disk_map, "saved")
    IN  /\ disk_index' = IF saves THEN d.index ELSE disk_index
        /\ disk_map' = IF saves THEN d.map ELSE disk_map
        /\ UNCHANGED <<vs_live, ps_call, ps_persisted>>

VsBuildIndex ==
    LET r == BuildIndex(vs_index, vs_dimension, vs_map, db_embeddings)
    IN  /\ vs_index' = r.index
        /\ vs_dimension' = r.dimension
        /\ vs_map' = r.map
        /\ vs_call' = [NoCall EXCEPT !.op = "build_index", !.err = r.err]
        /\ WriteSnapshot(r.index, r.map, db_embeddings # << >> /\ r.err = None)
        /\ UNCHANGED <<seg_vars, db_vars, os_call, ts_vars, ix_vars, pp_vars, st_vars, tr_vars>>

VsAddEmbedding ==
    \E c \in AddChunkIds, v \in VsVectors :
        LET r == AddEmbedding(vs_index, vs_dimension, vs_map, c, v)
        IN  /\ NTotal(r.index) <= MaxAddRows
            /\ vs_index' = r.index
            /\ vs_dimension' = r.dimension
            /\ vs_map' = r.map
            /\ vs_call' = [NoCall EXCEPT !.op = "add_embedding", !.chunk_id = c,
                                         !.vec = v, !.err = r.err]
            /\ UNCHANGED <<seg_vars, db_vars, os_call, ts_vars, ps_vars, ix_vars, pp_vars, st_vars, tr_vars>>

VsSearch ==
    \E q \in VsQueries, k \in TopKs :
        \E out \in Search(vs_index, vs_map, q, k) :
            /\ vs_call' = [NoCall EXCEPT !.op = "search", !.vec = q, !.top_k = k,
                                         !.err = out.err, !.results = out.results]
            /\ UNCHANGED <<vs_index, vs_dimension, vs_map>>
            /\ UNCHANGED <<seg_vars, db_vars, os_call, ts_vars, ps_vars, ix_vars, pp_vars, st_vars, tr_vars>>

VsInit ==
    /\ SegIdle
    /\ VsIdle
    /\ OsIdle
    /\ TrIdle
    /\ StIdle
    /\ PpIdle
    /\ IxIdle
    /\ TsIdle
    /\ PsIdle
    /\ db_embeddings \in VsTables

VsNext == VsBuildIndex \/ VsAddEmbedding \/ VsSearch

VsSpec == VsInit /\ [][VsNext]_vars

(***************************************************************************)
(* rebuild(E) followed by search(v, k): build_index over every table of    *)
(* up to MaxEmbeds rows, then one search.                                  *)
(***************************************************************************)
RECURSIVE VectorSeqs(_)
VectorSeqs(n) ==
    IF n = 0 THEN {<< >>}
    ELSE {Append(s, v) : s \in VectorSeqs(n - 1), v \in Vectors}

\* The rows of chunk_embeddings in id order; chunk_id is unique, and
\* ascends or descends with the row id.
EmbeddingTables ==
    {[i \in 1..Len(s) |-> Embedding(IF up THEN 10 + i ELSE 20 - i, s[i])] :
        s \in UNION {VectorSeqs(n) : n \in 0..MaxEmbeds}, up \in BOOLEAN}

\* The store before the rebuild: fresh, or holding an earlier add.
RsStores ==
    {[index |-> NoIndex, dimension |-> NoDimension, map |-> EmptyMap],
     AddEmbedding(NoIndex, NoDimension, EmptyMap, 1, <<1>>)}

RsInit ==
    /\ SegIdle
    /\ OsIdle
    /\ TrIdle
    /\ StIdle
    /\ PpIdle
    /\ IxIdle
    /\ TsIdle
    /\ PsIdle
    /\ db_embeddings \in EmbeddingTables
    /\ \E st \in RsStores :
        /\ vs_index = st.index
        /\ vs_dimension = st.dimension
        /\ vs_map = st.map
    /\ vs_call = NoCall

RsBuildIndex ==
    /\ vs_call.op = "none"
    /\ VsBuildIndex

RsSearch ==
    /\ vs_call.op = "build_index"
    /\ vs_call.err = None
    /\ \E q \in Vectors, k \in TopKs :
        \E out \in Search(vs_index, vs_map, q, k) :
            /\ vs_call' = [NoCall EXCEPT !.op = "search", !.vec = q, !.top_k = k,
                                         !.err = out.err, !.results = out.results]
            /\ UNCHANGED <<vs_index, vs_dimension, vs_map>>
            /\ UNCHANGED <<seg_vars, db_vars, os_call, ts_vars, ps_vars, ix_vars, pp_vars, st_vars, tr_vars>>

RsNext == RsBuildIndex \/ RsSearch

RsSpec == RsInit /\ [][RsNext]_vars

(***************************************************************************)
(* SemanticSearchService over the chunk store, the embedding store and the *)
(* shared VectorStore.  Each handler is one action.                        *)
(***************************************************************************)
OsVectors == {<<0>>, <<1>>, <<0, 0>>}

OsQueries == {<<0>>}

FileFilters == {NoFile} \cup 0..MaxFiles

ChunkIdsOf(chunks, f) == {c \in DOMAIN chunks : chunks[c] = f}

\* The rowid SQLite gives the next inserted row: one above the largest.
NextRowId(chunks) ==
    IF DOMAIN chunks = {} THEN 1
    ELSE 1 + CHOOSE c \in DOMAIN chunks : \A e \in DOMAIN chunks : e <= c

\* delete(DocumentChunk).where(DocumentChunk.file_id == f)
DeleteChunksOf(chunks, f) ==
    [c \in (DOMAIN chunks) \ ChunkIdsOf(chunks, f) |-> chunks[c]]

RECURSIVE InsertChunks(_, _, _)
InsertChunks(chunks, f, n) ==
    IF n = 0 THEN chunks
    ELSE InsertChunks(MapPut(chunks, NextRowId(chunks), f), f, n - 1)

RECURSIVE SetToSeq(_)
\* A set of ids as the ascending sequence a select returns.
SetToSeq(S) ==
    IF S = {} THEN << >>
    ELSE LET m == CHOOSE x \in S : \A y \in S : x <= y
         IN  <<m>> \o SetToSeq(S \ {m})

\* The upsert of generate_embeddings_for_chunks into chunk_embeddings.
UpsertEmbedding(table, chunk_id, v) ==
    IF RowOf(table, chunk_id) # 0
    THEN [table EXCEPT ![RowOf(table, chunk_id)].vec = v]
    ELSE Append(table, Embedding(chunk_id, v))

RECURSIVE GenerateLoop(_, _, _, _)
\* The loop of generate_embeddings_for_chunks over zip(chunks, embeddings):
\* upsert, then add_embedding; an exception leaves the loop before commit.
GenerateLoop(ids, vec_of, st, table) ==
    IF ids = << >> THEN [store |-> st, table |-> table, err |-> None]
    ELSE
        LET c == Head(ids)
            r == AddEmbedding(st.index, st.dimension, st.map, c, vec_of[c])
            next == [index |-> r.index, dimension |-> r.dimension, map |-> r.map]
        IN  IF r.err # None
            THEN [store |-> st, table |-> table, err |-> r.err]
            ELSE GenerateLoop(Tail(ids), vec_of, next,
                              UpsertEmbedding(table, c, vec_of[c]))

\* The score of a result, 1.0 / (1.0 + distance), as a fraction.
Score(distance) == [num |-> 1, den |-> 1 + distance]

ScoreLess(a, b) == a.num * b.den < b.num * a.den

RECURSIVE InsertByScore(_, _)
InsertByScore(sorted, x) ==
    IF sorted = << >> THEN <<x>>
    ELSE IF ScoreLess(Head(sorted).score, x.score)
    THEN <<x>> \o sorted
    ELSE <<Head(sorted)>> \o InsertByScore(Tail(sorted), x)

RECURSIVE SortByScoreDesc(_)
\* list.sort(key=score, reverse=True): stable, highest score first.
SortByScoreDesc(rs) ==
    IF rs = << >> THEN << >>
    ELSE InsertByScore(SortByScoreDesc(SubSeq(rs, 1, Len(rs) - 1)), rs[Len(rs)])

\* The chunk query of search with its optional file filter (`if file_id:`
\* skips the filter for None and for 0), and the result list built from it.
BuildSearchResults(chunks, raw, file_id) ==
    LET found(c) == /\ c \in DOMAIN chunks
                    /\ (file_id = NoFile \/ file_id = 0 \/ chunks[c] = file_id)
        kept == SelectSeq(raw, LAMBDA x : found(x.chunk_id))
    IN  SortByScoreDesc(
            [i \in 1..Len(kept) |->
                [chunk_id |-> kept[i].chunk_id,
                 file_id  |-> chunks[kept[i].chunk_id],
                 score    |-> Score(kept[i].distance),
                 distance |-> kept[i].distance]])

\* process_pdf: the file's chunks are deleted and n new ones inserted.
OsProcess ==
    \E f \in Files, n \in 1..MaxNewChunks :
        LET new == InsertChunks(DeleteChunksOf(db_chunks, f), f, n)
        IN  /\ f \in db_files
            /\ \A c \in DOMAIN new : c <= MaxChunkId
            /\ db_chunks' = new
            /\ os_call' = NoSearch
            /\ UNCHANGED <<seg_vars, vs_vars, db_embeddings, db_files, ts_vars, ps_vars, ix_vars, pp_vars, st_vars, tr_vars>>

\* delete_chunks_by_file_id
OsDeleteChunks ==
    \E f \in Files :
        /\ ChunkIdsOf(db_chunks, f) # {}
        /\ db_chunks' = DeleteChunksOf(db_chunks, f)
        /\ os_call' = NoSearch
        /\ UNCHANGED <<seg_vars, vs_vars, db_embeddings, db_files, ts_vars, ps_vars, ix_vars, pp_vars, st_vars, tr_vars>>

\* generate_embeddings_for_file with the vectors the provider returns.
OsGenerate ==
    \E f \in Files, d \in {1, 2} :
        /\ ChunkIdsOf(db_chunks, f) # {}
        /\ \E vec_of \in [ChunkIdsOf(db_chunks, f) -> {v \in OsVectors : Len(v) = d}] :
            LET st == [index |-> vs_index, dimension |-> vs_dimension, map |-> vs_map]
                r == GenerateLoop(SetToSeq(ChunkIdsOf(db_chunks, f)), vec_of, st,
                                  db_embeddings)
            IN  /\ NTotal(r.store.index) <= MaxIndexSize
                /\ vs_index' = r.store.index
                /\ vs_dimension' = r.store.dimension
                /\ vs_map' = r.store.map
                /\ db_embeddings' = IF r.err = None THEN r.table ELSE db_embeddings
                /\ os_call' = NoSearch
                /\ WriteSnapshot(r.store.index, r.store.map, r.err = None)
                /\ UNCHANGED <<seg_vars, vs_call, db_chunks, db_files, ts_vars, ix_vars, pp_vars, st_vars, tr_vars>>

\* POST /vector-store/rebuild
OsRebuild ==
    LET r == BuildIndex(vs_index, vs_dimension, vs_map, db_embeddings)
    IN  /\ vs_index' = r.index
        /\ vs_dimension' = r.dimension
        /\ vs_map' = r.map
        /\ os_call' = NoSearch
        /\ WriteSnapshot(r.index, r.map, db_embeddings # << >> /\ r.err = None)
        /\ UNCHANGED <<seg_vars, vs_call, db_vars, ts_vars, ix_vars, pp_vars, st_vars, tr_vars>>

\* SemanticSearchService.search: the lazy build_index, search_by_text with
\* the query's embedding q, the chunk query and the result list.
OsSearch ==
    \E q \in OsQueries, k \in TopKs, f \in FileFilters :
        LET b == IF vs_index.is_none
                 THEN BuildIndex(vs_index, vs_dimension, vs_map, db_embeddings)
                 ELSE [index |-> vs_index, dimension |-> vs_dimension,
                       map |-> vs_map, err |-> None]
            call == [NoSearch EXCEPT !.op = "search", !.vec = q, !.top_k = k,
                                     !.file_id = f]
        IN  /\ vs_index' = b.index
            /\ vs_dimension' = b.dimension
            /\ vs_map' = b.map
            /\ WriteSnapshot(b.index, b.map,
                             vs_index.is_none /\ db_embeddings # << >> /\ b.err = None)
            /\ UNCHANGED <<seg_vars, vs_call, db_vars, ts_vars, ix_vars, pp_vars, st_vars, tr_vars>>
            /\ IF b.err # None
               THEN os_call' = [call EXCEPT !.err = b.err]
               ELSE \E out \in Search(b.index, b.map, q, k) :
                    os_call' = [call EXCEPT
                                  !.err = out.err,
                                  !.raw = out.results,
                                  !.results =
                                     IF out.err = None
                                     THEN BuildSearchResults(db_chunks,
                                              out.results, f)
                                     ELSE << >>]

OsInit ==
    /\ SegIdle
    /\ VsIdle
    /\ DbIdle
    /\ OsIdle
    /\ TrIdle
    /\ StIdle
    /\ PpIdle
    /\ IxIdle
    /\ TsIdle
    /\ PsIdle

OsNext == OsProcess \/ OsDeleteChunks \/ OsGenerate \/ OsRebuild \/ OsSearch

OsSpec == OsInit /\ [][OsNext]_vars

RECURSIVE DeleteEmbeddingsOf(_, _)
\* delete(ChunkEmbedding).where(ChunkEmbedding.chunk_id.in_(ids))
DeleteEmbeddingsOf(table, ids) ==
    IF table = << >> THEN << >>
    ELSE IF Head(table).chunk_id \in ids
    THEN DeleteEmbeddingsOf(Tail(table), ids)
    ELSE <<Head(table)>> \o DeleteEmbeddingsOf(Tail(table), ids)

\* FileService.delete_file: the embeddings of the file's chunks, the chunks
\* and the file row, in one transaction.
OsDeleteFile ==
    \E f \in db_files :
        /\ db_embeddings' = DeleteEmbeddingsOf(db_embeddings, ChunkIdsOf(db_chunks, f))
        /\ db_chunks' = DeleteChunksOf(db_chunks, f)
        /\ db_files' = db_files \ {f}
        /\ os_call' = NoSearch
        /\ UNCHANGED <<seg_vars, vs_vars, ts_vars, ps_vars, ix_vars, pp_vars, st_vars, tr_vars>>

\* Segmentation, embedding generation and deletion, until the files are
\* deleted.
LsInit == OsInit

LsNext == OsProcess \/ OsDeleteChunks \/ OsGenerate \/ OsDeleteFile

LsSpec == LsInit /\ [][LsNext]_vars

(***************************************************************************)
(* The snapshot of the VectorStore on disk (the index file and the mapping *)
(* file next to it), the process-wide instance of get_vector_store, and    *)
(* the handlers that use them across restarts of the process.              *)
(***************************************************************************)
\* Mutant of LoadIndex: an index file without its mapping file is not loaded.
LoadIndexNeedsMapping(d_index, d_map) ==
    IF d_index.is_none \/ ~d_map.exists
    THEN [index |-> NoIndex, dimension |-> NoDimension, map |-> EmptyMap]
    ELSE [index |-> d_index, dimension |-> d_index.d, map |-> d_map.map]

\* load_index on a new VectorStore().
LoadIndex(d_index, d_map) ==
    IF d_index.is_none
    THEN [index |-> NoIndex, dimension |-> NoDimension, map |-> EmptyMap]
    ELSE [index     |-> d_index,
          dimension |-> d_index.d,
          map       |-> IF d_map.exists THEN d_map.map ELSE EmptyMap]

\* get_vector_store: the instance, created and loaded on first use.
GetVectorStore ==
    IF vs_live
    THEN [index |-> vs_index, dimension |-> vs_dimension, map |-> vs_map]
    ELSE LoadIndex(disk_index, disk_map)

\* Mutant of EnsureIndex: search does not build a missing index.
EnsureIndexSkipped(s, embeddings) ==
    [index |-> s.index, dimension |-> s.dimension, map |-> s.map, err |-> None]

\* if vector_store.index is None: await vector_store.build_index(db)
EnsureIndex(s, embeddings) ==
    IF s.index.is_none
    THEN BuildIndex(s.index, s.dimension, s.map, embeddings)
    ELSE [index |-> s.index, dimension |-> s.dimension, map |-> s.map,
          err |-> None]

SaveOutcomes == {"saved", "mapping_failed"}

\* The chunks of PsTables.
PsChunkIds == {1, 2}

\* The vectors the provider returns.
PsVectors == {<<1>>}

PsTopKs == {NoTopK, 1}

\* The chunk_embeddings rows the process finds at its first start.
PsTables ==
    {<< >>, <<Embedding(1, <<1>>)>>,
     <<Embedding(2, <<0>>), Embedding(1, <<1>>)>>}

\* The snapshot directory the process starts with.
Snapshots ==
    {[index |-> i, map |-> m] :
        i \in {NoIndex, [IndexFlatL2(1) EXCEPT !.vecs = <<<<1>>>>]},
        m \in {NoMapFile, [exists |-> TRUE, map |-> MapPut(EmptyMap, 0, 1)]}}

\* GET /vector-store/status
PsStatus ==
    LET s == GetVectorStore
    IN  /\ vs_index' = s.index
        /\ vs_dimension' = s.dimension
        /\ vs_map' = s.map
        /\ vs_live' = TRUE
        /\ ps_call' = [NoPsCall EXCEPT !.op = "status", !.loaded = ~vs_live]
        /\ UNCHANGED <<disk_index, disk_map, ps_persisted>>
        /\ UNCHANGED <<seg_vars, vs_call, db_vars, os_call, ts_vars, ix_vars, pp_vars, st_vars, tr_vars>>

\* generate_embeddings_for_chunks for one chunk.
PsGenerate ==
    \E c \in PsChunkIds, v \in PsVectors, outcome \in SaveOutcomes :
        LET s == GetVectorStore
            r == GenerateLoop(<<c>>, [x \in {c} |-> v], s, db_embeddings)
            d == SaveIndex(r.store.index, r.store.map, disk_index, disk_map, outcome)
        IN  /\ NTotal(r.store.index) <= MaxAddRows
            /\ vs_index' = r.store.index
            /\ vs_dimension' = r.store.dimension
            /\ vs_map' = r.store.map
            /\ vs_live' = TRUE
            /\ ps_call' = NoPsCall
            /\ IF r.err = None
               THEN /\ db_embeddings' = r.table
                    /\ disk_index' = d.index
                    /\ disk_map' = d.map
                    /\ ps_persisted' = [index |-> r.store.index, map |-> r.store.map,
                                        written |-> outcome = "saved"]
               ELSE UNCHANGED <<db_embeddings, disk_index, disk_map, ps_persisted>>
            /\ UNCHANGED <<seg_vars, vs_call, db_chunks, db_files, os_call, ts_vars, ix_vars, pp_vars, st_vars, tr_vars>>

\* The embedding rows FileService.delete_file removes for a file's chunk.
PsDeleteFile ==
    \E c \in PsChunkIds :
        /\ RowOf(db_embeddings, c) # 0
        /\ db_embeddings' = SelectSeq(db_embeddings, LAMBDA e : e.chunk_id # c)
        /\ ps_call' = NoPsCall
        /\ UNCHANGED <<vs_live, disk_index, disk_map, ps_persisted>>
        /\ UNCHANGED <<seg_vars, vs_vars, db_chunks, db_files, os_call, ts_vars, ix_vars, pp_vars, st_vars, tr_vars>>

\* POST /vector-store/rebuild
PsRebuild ==
    \E outcome \in SaveOutcomes :
        LET s == GetVectorStore
            r == BuildIndex(s.index, s.dimension, s.map, db_embeddings)
            saves == r.err = None /\ db_embeddings # << >>
            d == SaveIndex(r.index, r.map, disk_index, disk_map, outcome)
        IN  /\ vs_index' = r.index
            /\ vs_dimension' = r.dimension
            /\ vs_map' = r.map
            /\ vs_live' = TRUE
            /\ ps_call' = NoPsCall
            /\ disk_index' = IF saves THEN d.index ELSE disk_index
            /\ disk_map' = IF saves THEN d.map ELSE disk_map
            /\ ps_persisted' =
                   IF r.err = None
                   THEN [index |-> r.index, map |-> r.map,
                         written |-> saves => outcome = "saved"]
                   ELSE ps_persisted
            /\ UNCHANGED <<seg_vars, vs_call, db_vars, os_call, ts_vars, ix_vars, pp_vars, st_vars, tr_vars>>

\* SemanticSearchService.search with the query's embedding q.
PsSearch ==
    \E q \in OsQueries, k \in PsTopKs, outcome \in SaveOutcomes :
        LET s == GetVectorStore
            lazy == s.index.is_none
            b == EnsureIndex(s, db_embeddings)
            saves == lazy /\ b.err = None /\ db_embeddings # << >>
            d == SaveIndex(b.index, b.map, disk_index, disk_map, outcome)
            call == [NoPsCall EXCEPT !.op = "search", !.loaded = ~vs_live,
                                     !.lazy = lazy, !.vec = q, !.top_k = k]
        IN  /\ vs_index' = b.index
            /\ vs_dimension' = b.dimension
            /\ vs_map' = b.map
            /\ vs_live' = TRUE
            /\ disk_index' = IF saves THEN d.index ELSE disk_index
            /\ disk_map' = IF saves THEN d.map ELSE disk_map
            /\ ps_persisted' =
                   IF saves
                   THEN [index |-> b.index, map |-> b.map,
                         written |-> outcome = "saved"]
                   ELSE ps_persisted
            /\ IF b.err # None
               THEN ps_call' = [call EXCEPT !.err = b.err]
               ELSE \E out \in Search(b.index, b.map, q, k) :
                        ps_call' = [call EXCEPT !.err = out.err,
                                                !.results = out.results]
            /\ UNCHANGED <<seg_vars, vs_call, db_vars, os_call, ts_vars, ix_vars, pp_vars, st_vars, tr_vars>>

\* The process stops and starts again: the instance is gone, the files stay.
PsRestart ==
    /\ vs_live
    /\ vs_live' = FALSE
    /\ vs_index' = NoIndex
    /\ vs_dimension' = NoDimension
    /\ vs_map' = EmptyMap
    /\ ps_call' = NoPsCall
    /\ UNCHANGED <<disk_index, disk_map, ps_persisted>>
    /\ UNCHANGED <<seg_vars, vs_call, db_vars, os_call, ts_vars, ix_vars, pp_vars, st_vars, tr_vars>>

PsInit ==
    /\ SegIdle
    /\ VsIdle
    /\ OsIdle
    /\ TrIdle
    /\ StIdle
    /\ PpIdle
    /\ IxIdle
    /\ TsIdle
    /\ db_embeddings \in PsTables
    /\ vs_live = FALSE
    /\ \E s \in Snapshots : disk_index = s.index /\ disk_map = s.map
    /\ ps_call = NoPsCall
    /\ ps_persisted = NothingPersisted

PsNext ==
    \/ PsStatus
    \/ PsGenerate
    \/ PsDeleteFile
    \/ PsRebuild
    \/ PsSearch
    \/ PsRestart

PsSpec == PsInit /\ [][PsNext]_vars

(***************************************************************************)
(* The coroutines that write the shared VectorStore, step by step.  One    *)
(* action is the code a coroutine runs between two suspensions of the      *)
(* event loop: await db.execute and await db.commit suspend; add_embedding *)
(* and save_index, and build_index after its select, run to their end.     *)
(***************************************************************************)
IxChunkIds == 1..MaxIxChunks

\* The document_chunks rows of the one file whose chunks are embedded.
IxChunks == [c \in IxChunkIds |-> 1]

IxBatches == {<<1>>, <<2>>, <<1, 2>>}

\* The vectors the provider returns: of one model, so of one dimension.
IxVectors == {<<1>>}

IxQuery == <<0>>

RECURSIVE CommitPending(_, _)
\* db.commit(): the session's upserts, in the order they were made.
CommitPending(table, pending) ==
    IF pending = << >> THEN table
    ELSE CommitPending(UpsertEmbedding(table, Head(pending).chunk_id,
                                       Head(pending).vec), Tail(pending))

\* generate_embeddings_for_chunks up to the loop: the chunk select and the
\* provider call.
IxGenStart ==
    \E ids \in IxBatches :
        /\ ix_gen.pc = "idle"
        /\ \A i \in 1..Len(ids) : ids[i] \in DOMAIN db_chunks
        /\ NTotal(vs_index) + Len(ids) <= MaxIxRows
        /\ ix_gen' = [NoGenerate EXCEPT !.pc = "loop", !.ids = ids]
        /\ UNCHANGED <<ix_reb, ix_srch>>
        /\ UNCHANGED <<seg_vars, vs_vars, db_vars, os_call, ts_vars, ps_vars, pp_vars, st_vars, tr_vars>>

\* One pass of the loop, from the return of the select of the existing row:
\* the upsert in the session, then add_embedding with the provider's vector.
\* An exception of add_embedding ends the call; the session is closed
\* without a commit.
IxGenChunk ==
    \E v \in IxVectors :
        LET c == Head(ix_gen.ids)
            r == AddEmbedding(vs_index, vs_dimension, vs_map, c, v)
        IN  /\ ix_gen.pc = "loop"
            /\ ix_gen.ids # << >>
            /\ vs_index' = r.index
            /\ vs_dimension' = r.dimension
            /\ vs_map' = r.map
            /\ ix_gen' = IF r.err # None THEN NoGenerate
                         ELSE [ix_gen EXCEPT
                                  !.ids = Tail(@),
                                  !.pending = Append(@, Embedding(c, v)),
                                  !.added = @ \cup {c}]
            /\ UNCHANGED <<ix_reb, ix_srch>>
            /\ UNCHANGED <<seg_vars, vs_call, db_vars, os_call, ts_vars, ps_vars, pp_vars, st_vars, tr_vars>>

\* await db.commit() after the loop.
IxGenCommit ==
    /\ ix_gen.pc = "loop"
    /\ ix_gen.ids = << >>
    /\ db_embeddings' = CommitPending(db_embeddings, ix_gen.pending)
    /\ ix_gen' = [ix_gen EXCEPT !.pc = "save", !.pending = << >>]
    /\ UNCHANGED <<ix_reb, ix_srch>>
    /\ UNCHANGED <<seg_vars, vs_vars, db_chunks, db_files, os_call, ts_vars, ps_vars, pp_vars, st_vars, tr_vars>>

\* A database error raised by one of the awaits of the loop or by the
\* commit: get_db closes the session, which rolls the upserts back.
IxGenAbort ==
    /\ ix_gen.pc = "loop"
    /\ ix_gen' = NoGenerate
    /\ UNCHANGED <<ix_reb, ix_srch>>
    /\ UNCHANGED <<seg_vars, vs_vars, db_vars, os_call, ts_vars, ps_vars, pp_vars, st_vars, tr_vars>>

\* vector_store.save_index() after the refresh of the rows.
IxGenSave ==
    LET d == SaveIndex(vs_index, vs_map, disk_index, disk_map, "saved")
    IN  /\ ix_gen.pc = "save"
        /\ disk_index' = d.index
        /\ disk_map' = d.map
        /\ ps_persisted' = [index |-> vs_index, map |-> vs_map, written |-> TRUE]
        /\ ix_gen' = NoGenerate
        /\ UNCHANGED <<ix_reb, ix_srch, vs_live, ps_call>>
        /\ UNCHANGED <<seg_vars, vs_vars, db_vars, os_call, ts_vars, pp_vars, st_vars, tr_vars>>

\* build_index from its select to the end: the index and the mapping are
\* replaced by the rows read, and saved unless no row was read.
InstallRows(rows) ==
    LET r == BuildIndex(vs_index, vs_dimension, vs_map, rows)
        d == SaveIndex(r.index, r.map, disk_index, disk_map, "saved")
    IN  /\ vs_index' = r.index
        /\ vs_dimension' = r.dimension
        /\ vs_map' = r.map
        /\ IF rows # << >> /\ r.err = None
           THEN /\ disk_index' = d.index
                /\ disk_map' = d.map
                /\ ps_persisted' = [index |-> r.index, map |-> r.map,
                                    written |-> TRUE]
           ELSE UNCHANGED <<disk_index, disk_map, ps_persisted>>
        /\ UNCHANGED <<vs_live, ps_call>>
        /\ UNCHANGED <<seg_vars, vs_call, db_vars, os_call, ts_vars, pp_vars, st_vars, tr_vars>>

\* POST /vector-store/rebuild: build_index issues its select.
IxRebuildRead ==
    /\ ix_reb.pc = "idle"
    /\ ix_reb' = [pc |-> "read", rows |-> db_embeddings]
    /\ UNCHANGED <<ix_gen, ix_srch>>
    /\ UNCHANGED <<seg_vars, vs_vars, db_vars, os_call, ts_vars, ps_vars, pp_vars, st_vars, tr_vars>>

IxRebuildInstall ==
    /\ ix_reb.pc = "read"
    /\ InstallRows(ix_reb.rows)
    /\ ix_reb' = NoRebuild
    /\ UNCHANGED <<ix_gen, ix_srch>>

\* SemanticSearchService.search: the test of vector_store.index, and the
\* select of build_index when it is None.
IxSearchBegin ==
    /\ ix_srch.pc = "idle"
    /\ ix_srch' = IF vs_index.is_none
                  THEN [NoIxSearch EXCEPT !.pc = "build", !.rows = db_embeddings]
                  ELSE [NoIxSearch EXCEPT !.pc = "query"]
    /\ UNCHANGED <<ix_gen, ix_reb>>
    /\ UNCHANGED <<seg_vars, vs_vars, db_vars, os_call, ts_vars, ps_vars, pp_vars, st_vars, tr_vars>>

IxSearchBuild ==
    LET r == BuildIndex(vs_index, vs_dimension, vs_map, ix_srch.rows)
    IN  /\ ix_srch.pc = "build"
        /\ InstallRows(ix_srch.rows)
        /\ ix_srch' = IF r.err # None
                      THEN [NoIxSearch EXCEPT !.err = r.err]
                      ELSE [NoIxSearch EXCEPT !.pc = "query"]
        /\ UNCHANGED <<ix_gen, ix_reb>>

\* search_by_text with the embedding of the query, then the chunk select
\* and the result list.
IxSearchQuery ==
    \E out \in Search(vs_index, vs_map, IxQuery, NoTopK) :
        /\ ix_srch.pc = "query"
        /\ ix_srch' = [NoIxSearch EXCEPT
                          !.err = out.err,
                          !.results = IF out.err = None
                                      THEN BuildSearchResults(db_chunks,
                                               out.results, NoFile)
                                      ELSE << >>]
        /\ UNCHANGED <<ix_gen, ix_reb>>
        /\ UNCHANGED <<seg_vars, vs_vars, db_vars, os_call, ts_vars, ps_vars, pp_vars, st_vars, tr_vars>>

IxInit ==
    /\ SegIdle
    /\ VsIdle
    /\ DbIdle
    /\ db_chunks = IxChunks
    /\ db_files = {1}
    /\ os_call = NoSearch
    /\ TsIdle
    /\ PsIdle
    /\ IxIdle
    /\ PpIdle
    /\ StIdle
    /\ TrIdle

IxNext ==
    \/ IxGenStart \/ IxGenChunk \/ IxGenCommit \/ IxGenAbort \/ IxGenSave
    \/ IxRebuildRead \/ IxRebuildInstall
    \/ IxSearchBegin \/ IxSearchBuild \/ IxSearchQuery

IxSpec == IxInit /\ [][IxNext]_vars

(***************************************************************************)
(* Re-segmentation of a document by concurrent callers, step by step:      *)
(* process_pdf and _create_chunks_from_transcription delete the document's *)
(* chunks and commit, then insert the new chunks and commit.               *)
(***************************************************************************)
\* File 1 is a PDF, file 2 an audio file.
PpFiles == {1, 2}

IsPdf(f) == f = 1

PpKinds == {"pdf", "transcription"}

UsageErrors ==
    {"ValueError: File type is not supported",
     "ValueError: No text could be extracted from the PDF"}

RowsOfFile(rows, f) == {r \in rows : r.file = f}

\* The DocumentChunk rows of one run: chunk_index = idx of enumerate.
NewRows(f, run, n) ==
    {[file |-> f, run |-> run, chunk_index |-> i] : i \in 0..(n - 1)}

\* The call, up to its first await: process_pdf checks the file type and the
\* path; _create_chunks_from_transcription returns [] for an empty text.
PpCall(p) ==
    \E kind \in PpKinds, f \in PpFiles, exists \in BOOLEAN,
       n \in 0..MaxPpChunks :
        LET call == [NoProcess EXCEPT
                        !.kind = kind, !.file = f, !.run = pp_run + 1,
                        !.before = RowsOfFile(pp_rows, f)]
        IN  /\ pp_proc[p].pc \in {"idle", "done", "failed"}
            /\ pp_run < MaxPpRuns
            /\ kind = "transcription" => ~IsPdf(f) /\ exists
            /\ kind = "pdf" => n = 0
            /\ pp_run' = pp_run + 1
            /\ pp_proc' = [pp_proc EXCEPT ![p] =
                  IF kind = "pdf" /\ ~IsPdf(f)
                  THEN [call EXCEPT !.pc = "failed",
                            !.err = "ValueError: File type is not supported"]
                  ELSE IF kind = "pdf" /\ ~exists
                  THEN [call EXCEPT !.pc = "failed",
                                    !.err = "FileNotFoundError"]
                  ELSE IF kind = "transcription" /\ n = 0
                  THEN [call EXCEPT !.pc = "done"]
                  ELSE [call EXCEPT !.pc = "delete", !.n = n]]
            /\ UNCHANGED pp_rows
            /\ UNCHANGED <<seg_vars, vs_vars, db_vars, os_call, ts_vars, ps_vars, ix_vars, st_vars, tr_vars>>

\* delete(DocumentChunk).where(file_id == f) and its commit.
PpDelete(p) ==
    /\ pp_proc[p].pc = "delete"
    /\ pp_rows' = pp_rows \ RowsOfFile(pp_rows, pp_proc[p].file)
    /\ pp_proc' = [pp_proc EXCEPT ![p].pc =
                      IF pp_proc[p].kind = "pdf" THEN "extract" ELSE "insert"]
    /\ UNCHANGED pp_run
    /\ UNCHANGED <<seg_vars, vs_vars, db_vars, os_call, ts_vars, ps_vars, ix_vars, st_vars, tr_vars>>

\* _extract_text_from_pdf and the test of its text: pdfplumber fails, or
\* finds no text, or finds a text that splits into n chunks.
PpExtract(p) ==
    \E n \in -1..MaxPpChunks :
        /\ pp_proc[p].pc = "extract"
        /\ pp_proc' = [pp_proc EXCEPT ![p] =
              IF n = -1
              THEN [@ EXCEPT !.pc = "failed",
                       !.err = "Exception: Failed to extract text from PDF"]
              ELSE IF n = 0
              THEN [@ EXCEPT !.pc = "failed",
                       !.err = "ValueError: No text could be extracted from the PDF"]
              ELSE [@ EXCEPT !.pc = "insert", !.n = n]]
        /\ UNCHANGED <<pp_rows, pp_run>>
        /\ UNCHANGED <<seg_vars, vs_vars, db_vars, os_call, ts_vars, ps_vars, ix_vars, st_vars, tr_vars>>

\* The chunk records of the new run and their commit.
PpInsert(p) ==
    /\ pp_proc[p].pc = "insert"
    /\ pp_rows' = pp_rows \cup
                     NewRows(pp_proc[p].file, pp_proc[p].run, pp_proc[p].n)
    /\ pp_proc' = [pp_proc EXCEPT ![p].pc = "done"]
    /\ UNCHANGED pp_run
    /\ UNCHANGED <<seg_vars, vs_vars, db_vars, os_call, ts_vars, ps_vars, ix_vars, st_vars, tr_vars>>

PpInit ==
    /\ SegIdle
    /\ VsIdle
    /\ DbIdle
    /\ OsIdle
    /\ TrIdle
    /\ StIdle
    /\ TsIdle
    /\ PsIdle
    /\ IxIdle
    /\ PpIdle

PpNext ==
    \E p \in PpCallers : PpCall(p) \/ PpDelete(p) \/ PpExtract(p) \/ PpInsert(p)

PpSpec == PpInit /\ [][PpNext]_vars

(***************************************************************************)
(* TimestampService: the text-overlap test, the merge of hits, the search  *)
(* for matching transcript segments and the timestamp formatter.  A time   *)
(* is a whole number of seconds, except in format_timestamp, whose         *)
(* argument is a whole number of milliseconds.                             *)
(***************************************************************************)
\* str.lower() on the letters of the model's texts.
Lower(t) ==
    [i \in 1..Len(t) |->
        IF t[i] = "A" THEN "a" ELSE IF t[i] = "B" THEN "b" ELSE t[i]]

RECURSIVE SplitFrom(_, _, _)
\* str.split(): the runs of non-whitespace characters, in order.
SplitFrom(t, i, word) ==
    IF i > Len(t)
    THEN IF word = << >> THEN << >> ELSE <<word>>
    ELSE IF t[i] \in Whitespace
    THEN (IF word = << >> THEN << >> ELSE <<word>>) \o SplitFrom(t, i + 1, << >>)
    ELSE SplitFrom(t, i + 1, Append(word, t[i]))

Split(t) == SplitFrom(t, 1, << >>)

\* set(text.split())
WordSet(t) == {Split(t)[i] : i \in 1..Len(Split(t))}

\* threshold=0.3 in _find_matching_segments, as a fraction.
AlignerThreshold == [num |-> 3, den |-> 10]

\* gap_threshold: float = 2.0
GapThreshold == 2

\* Mutant of TextOverlap: the threshold is exclusive.
TextOverlapExclusive(text1, text2, threshold) ==
    LET words1 == WordSet(text1)
        words2 == WordSet(text2)
    IN  IF words1 = {} \/ words2 = {}
        THEN [err |-> None, value |-> FALSE]
        ELSE [err |-> None,
              value |-> Cardinality(words1 \cap words2) * threshold.den
                            > threshold.num * Cardinality(words1 \cup words2)]

\* _text_overlap.  similarity >= threshold is compared as fractions.
TextOverlap(text1, text2, threshold) ==
    LET words1 == WordSet(text1)
        words2 == WordSet(text2)
        intersection == words1 \cap words2
        union == words1 \cup words2
    IN  IF words1 = {} \/ words2 = {}
        THEN [err |-> None, value |-> FALSE]
        ELSE IF union = {}
        THEN [err |-> None, value |-> FALSE]
        ELSE IF Cardinality(union) = 0
        THEN [err |-> "ZeroDivisionError", value |-> FALSE]
        ELSE [err |-> None,
              value |-> Cardinality(intersection) * threshold.den
                            >= threshold.num * Cardinality(union)]

\* Mutant of MergedEnd: the end of the segment that joins replaces the end
\* of the running group.
MergedEndOfLast(current_end, segment_end) == segment_end

\* current["end"] = max(current["end"], segment["end"])
MergedEnd(current_end, segment_end) == Max(current_end, segment_end)

RECURSIVE MergeFrom(_, _, _, _)
\* The loop of _merge_overlapping_segments from segments[i] on.
MergeFrom(segments, i, current, gap_threshold) ==
    IF i > Len(segments) THEN <<current>>
    ELSE
        LET segment == segments[i]
            end == MergedEnd(current.end, segment.end)
        IN  IF segment.start <= current.end + gap_threshold
            THEN MergeFrom(segments, i + 1,
                           [start    |-> current.start,
                            end      |-> end,
                            text     |-> current.text \o <<" ">> \o segment.text,
                            duration |-> end - current.start],
                           gap_threshold)
            ELSE <<current>> \o MergeFrom(segments, i + 1, segment, gap_threshold)

\* _merge_overlapping_segments
MergeOverlappingSegments(segments, gap_threshold) ==
    IF segments = << >> THEN << >>
    ELSE MergeFrom(segments, 2, segments[1], gap_threshold)

RECURSIVE InsertByStart(_, _)
InsertByStart(sorted, x) ==
    IF sorted = << >> THEN <<x>>
    ELSE IF x.start < Head(sorted).start
    THEN <<x>> \o sorted
    ELSE <<Head(sorted)>> \o InsertByStart(Tail(sorted), x)

RECURSIVE SortedByStartFrom(_, _, _)
SortedByStartFrom(xs, i, sorted) ==
    IF i > Len(xs) THEN sorted
    ELSE SortedByStartFrom(xs, i + 1, InsertByStart(sorted, xs[i]))

\* Mutant of SortByStart: the hits stay in transcript order.
SortByStartSkipped(xs) == xs

\* matching_segments.sort(key=start): stable, ascending.
SortByStart(xs) == SortedByStartFrom(xs, 1, << >>)

\* The hit dictionary _find_matching_segments appends for a segment.
MatchingSegment(segment) ==
    [start    |-> segment.start,
     end      |-> segment.end,
     text     |-> segment.text,
     duration |-> segment.end - segment.start]

\* _find_matching_segments
FindMatchingSegments(search_text, segments) ==
    IF segments = << >> \/ search_text = << >> THEN << >>
    ELSE
        LET search_text_lower == Strip(Lower(search_text))
            hit(segment) ==
                TextOverlap(search_text_lower, Lower(segment.text),
                            AlignerThreshold).value
            hits == SelectSeq(segments, hit)
            matching_segments == [i \in 1..Len(hits) |-> MatchingSegment(hits[i])]
        IN  MergeOverlappingSegments(SortByStart(matching_segments), GapThreshold)

Digits == <<"0", "1", "2", "3", "4", "5", "6", "7", "8", "9">>

RECURSIVE Decimal(_)
Decimal(n) ==
    IF n < 10 THEN <<Digits[n + 1]>>
    ELSE Decimal(n \div 10) \o <<Digits[(n % 10) + 1]>>

\* The format specs :02d and :03d: zero-padded to at least `width` digits.
ZeroPad(n, width) ==
    LET d == Decimal(n)
    IN  IF Len(d) >= width THEN d
        ELSE [i \in 1..(width - Len(d)) |-> "0"] \o d

\* The times t (in milliseconds) within 20 ms of 0 s, 60 s, 3600 s and
\* 360000 s for which the double nearest to t / 1000 has a fraction that,
\* multiplied by 1000 in binary floating point, falls just below the whole
\* millisecond, so that int((seconds % 1) * 1000) is one less than t % 1000.
FractionFallsShort ==
    {59980, 59982, 59983, 59985, 59986, 59988, 59989, 59991, 59992, 59994,
     59995, 59997, 59998, 60001, 60004, 60007, 60010, 60013, 60016, 60019,
     3599982, 3599984, 3599986, 3599988, 3599990, 3599991, 3599993, 3599995,
     3599997, 3599999, 3600002, 3600004, 3600006, 3600008, 3600011, 3600013,
     3600015, 3600017, 3600019, 3600020,
     359999980, 359999984, 359999985, 359999986, 359999990, 359999991,
     359999995, 359999996, 359999997, 360000001, 360000002, 360000006,
     360000007, 360000008, 360000011, 360000012, 360000013, 360000017,
     360000018, 360000019}

\* Mutant of FormatTimestamp: the hours field is always written.
FormatTimestampWithHours(t) ==
    ZeroPad(t \div 3600000, 2) \o <<":">> \o ZeroPad((t % 3600000) \div 60000, 2)
        \o <<":">> \o ZeroPad((t % 60000) \div 1000, 2)
        \o <<".">> \o ZeroPad(t % 1000, 3)

\* format_timestamp(t / 1000)
FormatTimestamp(t) ==
    LET hours == t \div 3600000
        minutes == (t % 3600000) \div 60000
        secs == (t % 60000) \div 1000
        milliseconds == IF t \in FractionFallsShort
                        THEN (t % 1000) - 1 ELSE t % 1000
    IN  IF hours > 0
        THEN ZeroPad(hours, 2) \o <<":">> \o ZeroPad(minutes, 2) \o <<":">>
                 \o ZeroPad(secs, 2) \o <<".">> \o ZeroPad(milliseconds, 3)
        ELSE ZeroPad(minutes, 2) \o <<":">> \o ZeroPad(secs, 2)
                 \o <<".">> \o ZeroPad(milliseconds, 3)

(***************************************************************************)
(* The arguments the functions of TimestampService are applied to.         *)
(***************************************************************************)
OverlapChars == {"a", "b", " "}

MachineLearning ==
    <<"m", "a", "c", "h", "i", "n", "e", " ",
      "l", "e", "a", "r", "n", "i", "n", "g">>

MachineLearningIsFun == MachineLearning \o <<" ", "i", "s", " ", "f", "u", "n">>

TotallyDifferent ==
    <<"t", "o", "t", "a", "l", "l", "y", " ",
      "d", "i", "f", "f", "e", "r", "e", "n", "t">>

\* Texts of three and four distinct words, for the ratios 1/3 and 1/4.
ThreeWords == <<"a", " ", "b", " ", "a", "b">>

FourWords == ThreeWords \o <<"\n", "b", "a">>

OverlapTexts ==
    UNION {[1..n -> OverlapChars] : n \in 0..MaxOverlapLen}
        \cup {MachineLearning, MachineLearningIsFun, TotallyDifferent,
              ThreeWords, FourWords}

Thresholds ==
    {AlignerThreshold, [num |-> 0, den |-> 1], [num |-> 1, den |-> 2],
     [num |-> 1, den |-> 1]}

\* The text of the i-th hit handed to the merge.
HitText(i) == <<<<"a">>, <<"b">>, <<"c">>, <<"d">>, <<"e">>>>[i]

Hit(i, start, end) ==
    [start |-> start, end |-> end, text |-> HitText(i), duration |-> end - start]

MergeRanges == {r \in (0..MaxMergeTime) \X (0..MaxMergeTime) : r[1] <= r[2]}

\* The test's hits [(0,5), (6,8), (20,22)].
ExampleHits == <<Hit(1, 0, 5), Hit(2, 6, 8), Hit(3, 20, 22)>>

\* Lists of hits in ascending order of start.
SortedHitLists ==
    {ExampleHits} \cup
    UNION {{[i \in 1..n |-> Hit(i, rs[i][1], rs[i][2])] :
               rs \in {x \in [1..n -> MergeRanges] :
                          \A i \in 1..(n - 1) : x[i][1] <= x[i + 1][1]}} :
           n \in 0..MaxMergeSegs}

Gaps == 0..MaxGap

FindRanges == {<<0, 1>>, <<0, 4>>, <<2, 3>>, <<6, 7>>}

FindTexts == {<<"B">>, <<"b", " ", "c", " ", "d">>}

FindQueries == {<< >>, <<" ">>, <<" ", "a", " ", "B", "\n">>}

TranscriptSegments ==
    {[start |-> r[1], end |-> r[2], text |-> t] : r \in FindRanges, t \in FindTexts}

Transcripts == UNION {[1..n -> TranscriptSegments] : n \in 0..MaxFindSegs}

\* Times in milliseconds around 0 s, 60 s, 3600 s and 360000 s, and the
\* times 10.5 s, 61.2 s and 3661.0 s.
FormatTimes ==
    {t \in UNION {(b - MaxWindow)..(b + MaxWindow) :
                     b \in {0, 60000, 3600000, 360000000}} : t >= 0}
        \cup {10500, 61200, 3661000}

TsTextOverlap ==
    /\ ts_fn = "_text_overlap"
    /\ ts_pc = "call"
    /\ ts_ret' = TextOverlap(ts_args.text1, ts_args.text2, ts_args.threshold)
    /\ ts_pc' = "return"
    /\ UNCHANGED <<ts_fn, ts_args, seg_vars, vs_vars, db_vars, os_call, ps_vars, ix_vars, pp_vars, st_vars, tr_vars>>

TsMergeOverlappingSegments ==
    /\ ts_fn = "_merge_overlapping_segments"
    /\ ts_pc = "call"
    /\ ts_ret' = MergeOverlappingSegments(ts_args.segments, ts_args.gap_threshold)
    /\ ts_pc' = "return"
    /\ UNCHANGED <<ts_fn, ts_args, seg_vars, vs_vars, db_vars, os_call, ps_vars, ix_vars, pp_vars, st_vars, tr_vars>>

TsFindMatchingSegments ==
    /\ ts_fn = "_find_matching_segments"
    /\ ts_pc = "call"
    /\ ts_ret' = FindMatchingSegments(ts_args.search_text, ts_args.segments)
    /\ ts_pc' = "return"
    /\ UNCHANGED <<ts_fn, ts_args, seg_vars, vs_vars, db_vars, os_call, ps_vars, ix_vars, pp_vars, st_vars, tr_vars>>

TsFormatTimestamp ==
    /\ ts_fn = "format_timestamp"
    /\ ts_pc = "call"
    /\ ts_ret' = FormatTimestamp(ts_args.millis)
    /\ ts_pc' = "return"
    /\ UNCHANGED <<ts_fn, ts_args, seg_vars, vs_vars, db_vars, os_call, ps_vars, ix_vars, pp_vars, st_vars, tr_vars>>

TsInit ==
    /\ SegIdle
    /\ VsIdle
    /\ DbIdle
    /\ OsIdle
    /\ TrIdle
    /\ StIdle
    /\ PpIdle
    /\ IxIdle
    /\ PsIdle
    /\ ts_pc = "call"
    /\ ts_ret = << >>
    /\ \/ /\ ts_fn = "_text_overlap"
          /\ ts_args \in [text1 : OverlapTexts, text2 : OverlapTexts,
                          threshold : Thresholds]
       \/ /\ ts_fn = "_merge_overlapping_segments"
          /\ ts_args \in [segments : SortedHitLists, gap_threshold : Gaps]
       \/ /\ ts_fn = "_find_matching_segments"
          /\ ts_args \in [search_text : FindQueries, segments : Transcripts]
       \/ /\ ts_fn = "format_timestamp"
          /\ ts_args \in [millis : FormatTimes]

TsNext ==
    \/ TsTextOverlap
    \/ TsMergeOverlappingSegments
    \/ TsFindMatchingSegments
    \/ TsFormatTimestamp

TsSpec == TsInit /\ [][TsNext]_vars

(***************************************************************************)
(* Segmenter actions.                                                      *)
(***************************************************************************)
RECURSIVE TextsOfLen(_)
TextsOfLen(n) ==
    IF n = 0 THEN {<< >>}
    ELSE {Append(t, c) : t \in TextsOfLen(n - 1), c \in Chars}

\* process_pdf rejects a text that is empty after strip().
SegTexts ==
    {t \in UNION {TextsOfLen(n) : n \in 1..MaxTextLen} : Strip(t) # << >>}

SegInit ==
    /\ VsIdle
    /\ DbIdle
    /\ OsIdle
    /\ TrIdle
    /\ StIdle
    /\ PpIdle
    /\ IxIdle
    /\ TsIdle
    /\ PsIdle
    /\ seg_text \in SegTexts
    /\ seg_cs \in 1..MaxChunkSize
    /\ seg_ov \in 0..(seg_cs - 1)
    /\ seg_start = 0
    /\ seg_chunks = << >>
    /\ seg_records = << >>
    /\ seg_pc = "loop"
    /\ seg_req = NoRequest

\* The body of `while start < len(text)`.
FixedStep ==
    /\ seg_pc = "loop"
    /\ seg_start < Len(seg_text)
    /\ Len(seg_chunks) < MaxChunks
    /\ seg_chunks' = Append(seg_chunks, FixedChunk(seg_text, seg_start, seg_cs))
    /\ seg_start' = FixedNextStart(seg_text, seg_start, seg_cs, seg_ov)
    /\ UNCHANGED <<seg_text, seg_cs, seg_ov, seg_records, seg_pc, seg_req>>
    /\ UNCHANGED <<vs_vars, db_vars, os_call, ts_vars, ps_vars, ix_vars, pp_vars, st_vars, tr_vars>>

\* The loop exit, and the rows process_pdf creates and commits.
ProcessFinish ==
    /\ seg_pc = "loop"
    /\ seg_start >= Len(seg_text)
    /\ seg_records' = ChunkRecords(seg_chunks)
    /\ seg_pc' = "done"
    /\ UNCHANGED <<seg_text, seg_cs, seg_ov, seg_start, seg_chunks, seg_req>>
    /\ UNCHANGED <<vs_vars, db_vars, os_call, ts_vars, ps_vars, ix_vars, pp_vars, st_vars, tr_vars>>

SegNext == FixedStep \/ ProcessFinish

SegSpec == SegInit /\ [][SegNext]_vars

(***************************************************************************)
(* The 2,500-character document of the end-to-end scenario, processed      *)
(* with the default chunk_size and chunk_overlap.  E2EText(p, c) has the   *)
(* character c at every p-th position and the other character elsewhere.   *)
(***************************************************************************)
E2EText(p, c) ==
    [i \in 1..2500 |->
        IF p > 0 /\ i % p = 0 THEN c ELSE IF c = " " THEN "a" ELSE " "]

E2ETexts ==
    {E2EText(0, " ")} \cup
    {E2EText(p, c) : p \in 2..E2EMaxPeriod, c \in {" ", "a"}}

E2EInit ==
    /\ VsIdle
    /\ DbIdle
    /\ OsIdle
    /\ TrIdle
    /\ StIdle
    /\ PpIdle
    /\ IxIdle
    /\ TsIdle
    /\ PsIdle
    /\ seg_text \in E2ETexts
    /\ seg_cs = DefaultChunkSize
    /\ seg_ov = DefaultChunkOverlap
    /\ seg_start = 0
    /\ seg_chunks = << >>
    /\ seg_records = << >>
    /\ seg_pc = "loop"
    /\ seg_req = NoRequest

E2ESpec == E2EInit /\ [][SegNext]_vars

(***************************************************************************)
(* process_pdf from the request: the defaults for chunk_size and           *)
(* chunk_overlap, then the chunker.                                        *)
(***************************************************************************)
\* x or default: None and 0 are both falsy.
OrDefault(arg, default) ==
    IF ~arg.given \/ arg.value = 0 THEN default ELSE arg.value

RequestArgs == {Omitted} \cup {Arg(v) : v \in -1..MaxChunkSize}

PaRequests ==
    {[chunk_size |-> cs, chunk_overlap |-> ov] : cs \in RequestArgs, ov \in RequestArgs}

\* chunk_size = chunk_size or settings.chunk_size, and the same for
\* chunk_overlap; the values go to _split_text_into_chunks as they are.
ProcessDefaults ==
    /\ seg_pc = "call"
    /\ seg_cs' = OrDefault(seg_req.chunk_size, DefaultChunkSize)
    /\ seg_ov' = OrDefault(seg_req.chunk_overlap, DefaultChunkOverlap)
    /\ seg_pc' = "loop"
    /\ UNCHANGED <<seg_text, seg_start, seg_chunks, seg_records, seg_req>>
    /\ UNCHANGED <<vs_vars, db_vars, os_call, ts_vars, ps_vars, ix_vars, pp_vars, st_vars, tr_vars>>

PaInit ==
    /\ VsIdle
    /\ DbIdle
    /\ OsIdle
    /\ TrIdle
    /\ StIdle
    /\ PpIdle
    /\ IxIdle
    /\ TsIdle
    /\ PsIdle
    /\ seg_text \in SegTexts
    /\ seg_req \in PaRequests
    /\ seg_cs = 0
    /\ seg_ov = 0
    /\ seg_start = 0
    /\ seg_chunks = << >>
    /\ seg_records = << >>
    /\ seg_pc = "call"

PaNext == ProcessDefaults \/ FixedStep \/ ProcessFinish

PaSpec == PaInit /\ [][PaNext]_vars

(***************************************************************************)
(* PDFService._split_text_into_chunks: the dispatch on `strategy`, the     *)
(* sentence chunker one loop iteration at a time, the paragraph chunker as *)
(* a function of its arguments, and the fixed-size loop above.             *)
(***************************************************************************)
MaxStTextLen == 5

StChars == {"a", ".", " ", "\n"}

\* The sentence-terminal characters of the pattern (?<=[.!?])\s+.
Terminals == {".", "!", "?"}

\* settings.chunking_strategy.
ChunkingStrategy == "fixed"

Strategies == {"fixed", "sentence", "paragraph"}

\* sep.join(parts).
RECURSIVE Join(_, _)
Join(parts, sep) ==
    IF parts = << >> THEN << >>
    ELSE IF Len(parts) = 1 THEN parts[1]
    ELSE parts[1] \o sep \o Join(Tail(parts), sep)

\* re.split(r'(?<=[.!?])\s+', text): the text is cut at every run of
\* whitespace that follows a terminal; the run is dropped.
RECURSIVE SplitSentences(_)
SplitSentences(t) ==
    LET cuts == {i \in 2..Len(t) : t[i] \in Whitespace /\ t[i - 1] \in Terminals}
    IN  IF cuts = {} THEN <<t>>
        ELSE LET i    == CHOOSE c \in cuts : \A d \in cuts : c <= d
                 rest == {j \in i..Len(t) : t[j] \notin Whitespace}
                 j    == IF rest = {} THEN Len(t) + 1
                         ELSE CHOOSE c \in rest : \A d \in rest : c <= d
             IN  <<SubSeq(t, 1, i - 1)>> \o SplitSentences(SubSeq(t, j, Len(t)))

\* text.split('\n\n').
RECURSIVE SplitBlankLine(_)
SplitBlankLine(t) ==
    LET cuts == {i \in 1..(Len(t) - 1) : t[i] = "\n" /\ t[i + 1] = "\n"}
    IN  IF cuts = {} THEN <<t>>
        ELSE LET i == CHOOSE c \in cuts : \A d \in cuts : c <= d
             IN  <<SubSeq(t, 1, i - 1)>> \o SplitBlankLine(SubSeq(t, i + 2, Len(t)))

\* The chunk dictionary the sentence and paragraph chunkers append.
UnitChunk(chunk_text, start_char) ==
    [text        |-> chunk_text,
     start_char  |-> start_char,
     end_char    |-> start_char + Len(chunk_text),
     token_count |-> EstimateTokens(chunk_text)]

\* chunk_text[-chunk_overlap:] if chunk_overlap > 0 else "".
OverlapText(chunk_text, ov) ==
    IF ov > 0 THEN PySlice(chunk_text, -ov, Len(chunk_text)) ELSE << >>

\* Mutant of ParagraphSeed: the next chunk is seeded as the sentence chunker
\* seeds it.
ParagraphSeedWithOverlap(chunk_text, para, ov) ==
    IF OverlapText(chunk_text, ov) # << >>
    THEN <<OverlapText(chunk_text, ov), para>>
    ELSE <<para>>

\* current_chunk = [para].
ParagraphSeed(chunk_text, para, ov) == <<para>>

\* The for loop of _chunk_by_paragraph over the paragraphs still to visit,
\* and the trailing chunk.
RECURSIVE ParagraphLoop(_, _, _, _, _, _, _)
ParagraphLoop(paras, cs, ov, chunks, current, size, start) ==
    IF paras = << >>
    THEN IF current # << >>
         THEN Append(chunks, UnitChunk(Join(current, <<"\n", "\n">>), start))
         ELSE chunks
    ELSE LET para == Strip(Head(paras))
         IN  IF para = << >>
             THEN ParagraphLoop(Tail(paras), cs, ov, chunks, current, size, start)
             ELSE IF size + Len(para) > cs /\ current # << >>
             THEN LET chunk == UnitChunk(Join(current, <<"\n", "\n">>), start)
                      seed  == ParagraphSeed(chunk.text, para, ov)
                  IN  ParagraphLoop(Tail(paras), cs, ov, Append(chunks, chunk),
                                    seed,
                                    IF seed = <<para>> THEN Len(para)
                                    ELSE Len(Join(seed, <<"\n", "\n">>)),
                                    chunk.end_char)
             ELSE ParagraphLoop(Tail(paras), cs, ov, chunks,
                                Append(current, para), size + Len(para) + 2,
                                start)

ChunkByParagraph(t, cs, ov) ==
    ParagraphLoop(SplitBlankLine(t), cs, ov, << >>, << >>, 0, 0)

\* strategy = strategy or settings.chunking_strategy.
StrategyOrDefault(s) == IF s = None THEN ChunkingStrategy ELSE s

StTexts ==
    LET RECURSIVE Texts(_)
        Texts(n) == IF n = 0 THEN {<< >>}
                    ELSE {Append(t, c) : t \in Texts(n - 1), c \in StChars}
    IN  {t \in UNION {Texts(n) : n \in 1..MaxStTextLen} : Strip(t) # << >>}

\* The strategies of a request: omitted, the three documented ones, and one
\* that is none of them.
StRequests == {None} \cup Strategies \cup {"semantic"}

StInit ==
    /\ VsIdle
    /\ DbIdle
    /\ OsIdle
    /\ TrIdle
    /\ PpIdle
    /\ IxIdle
    /\ TsIdle
    /\ PsIdle
    /\ seg_text \in StTexts
    /\ seg_cs \in 1..MaxChunkSize
    /\ seg_ov \in 0..(seg_cs - 1)
    /\ seg_start = 0
    /\ seg_chunks = << >>
    /\ seg_records = << >>
    /\ seg_pc = "split"
    /\ seg_req = NoRequest
    /\ st_strategy \in StRequests
    /\ st_units = << >>
    /\ st_current = << >>
    /\ st_size = 0

\* if strategy == "sentence": the split into sentences, before the loop.
SplitSentence ==
    /\ seg_pc = "split"
    /\ StrategyOrDefault(st_strategy) = "sentence"
    /\ st_units' = SplitSentences(seg_text)
    /\ seg_pc' = "sentence"
    /\ UNCHANGED <<seg_text, seg_cs, seg_ov, seg_start, seg_chunks, seg_records, seg_req>>
    /\ UNCHANGED <<st_strategy, st_current, st_size>>
    /\ UNCHANGED <<vs_vars, db_vars, os_call, ts_vars, ps_vars, ix_vars, pp_vars, tr_vars>>

\* The body of `for sentence in sentences`.
SentenceStep ==
    /\ seg_pc = "sentence"
    /\ st_units # << >>
    /\ LET sentence == Head(st_units)
       IN  IF st_size + Len(sentence) > seg_cs /\ st_current # << >>
           THEN LET chunk == UnitChunk(Join(st_current, <<" ">>), seg_start)
                    overlap_text == OverlapText(chunk.text, seg_ov)
                    seed == IF overlap_text # << >>
                            THEN <<overlap_text, sentence>>
                            ELSE <<sentence>>
                IN  /\ seg_chunks' = Append(seg_chunks, chunk)
                    /\ st_current' = seed
                    /\ st_size' = Len(Join(seed, <<" ">>))
                    /\ seg_start' = chunk.end_char - Len(overlap_text)
           ELSE /\ st_current' = Append(st_current, sentence)
                /\ st_size' = st_size + Len(sentence) + 1
                /\ UNCHANGED <<seg_chunks, seg_start>>
    /\ st_units' = Tail(st_units)
    /\ UNCHANGED <<seg_text, seg_cs, seg_ov, seg_records, seg_pc, seg_req>>
    /\ UNCHANGED st_strategy
    /\ UNCHANGED <<vs_vars, db_vars, os_call, ts_vars, ps_vars, ix_vars, pp_vars, tr_vars>>

\* The trailing chunk, and the rows process_pdf creates and commits.
SentenceFinish ==
    /\ seg_pc = "sentence"
    /\ st_units = << >>
    /\ seg_chunks' = IF st_current # << >>
                     THEN Append(seg_chunks,
                                 UnitChunk(Join(st_current, <<" ">>), seg_start))
                     ELSE seg_chunks
    /\ seg_records' = ChunkRecords(seg_chunks')
    /\ seg_pc' = "done"
    /\ UNCHANGED <<seg_text, seg_cs, seg_ov, seg_start, seg_req>>
    /\ UNCHANGED st_vars
    /\ UNCHANGED <<vs_vars, db_vars, os_call, ts_vars, ps_vars, ix_vars, pp_vars, tr_vars>>

\* elif strategy == "paragraph", and the rows process_pdf creates.
SplitParagraph ==
    /\ seg_pc = "split"
    /\ StrategyOrDefault(st_strategy) = "paragraph"
    /\ seg_chunks' = ChunkByParagraph(seg_text, seg_cs, seg_ov)
    /\ seg_records' = ChunkRecords(seg_chunks')
    /\ seg_pc' = "done"
    /\ UNCHANGED <<seg_text, seg_cs, seg_ov, seg_start, seg_req>>
    /\ UNCHANGED st_vars
    /\ UNCHANGED <<vs_vars, db_vars, os_call, ts_vars, ps_vars, ix_vars, pp_vars, tr_vars>>

\* else: every other strategy enters the loop of _chunk_fixed_size.
SplitFixed ==
    /\ seg_pc = "split"
    /\ StrategyOrDefault(st_strategy) \notin {"sentence", "paragraph"}
    /\ seg_pc' = "loop"
    /\ UNCHANGED <<seg_text, seg_cs, seg_ov, seg_start, seg_chunks, seg_records, seg_req>>
    /\ UNCHANGED st_vars
    /\ UNCHANGED <<vs_vars, db_vars, os_call, ts_vars, ps_vars, ix_vars, pp_vars, tr_vars>>

StNext ==
    \/ SplitSentence
    \/ SentenceStep
    \/ SentenceFinish
    \/ SplitParagraph
    \/ SplitFixed
    \/ FixedStep
    \/ ProcessFinish

StSpec == StInit /\ [][StNext]_vars

(***************************************************************************)
(* TranscriptionService.transcribe_file, one step per await, for callers   *)
(* with a session each, and POST /files/{file_id}/embeddings.  The text of *)
(* a transcription is 0 when it is empty and the number of the run that    *)
(* produced it otherwise.                                                  *)
(***************************************************************************)
TranscriptionIds(rows, f) == {i \in 1..Len(rows) : rows[i].file_id = f}

\* The UPDATE a commit sends for a loaded row: the columns whose value
\* differs from the value the session loaded.
NetUpdate(row, loaded, new) ==
    [file_id       |-> row.file_id,
     status        |-> IF new.status # loaded.status
                       THEN new.status ELSE row.status,
     error_message |-> IF new.error_message # loaded.error_message
                       THEN new.error_message ELSE row.error_message,
     full_text     |-> IF new.full_text # loaded.full_text
                       THEN new.full_text ELSE row.full_text]

\* The call, up to the select of get_transcription_by_file_id.
TrCall(p) ==
    \E f \in TrFiles :
        /\ tr_proc[p].pc \in {"idle", "done"}
        /\ tr_runs < MaxTrRuns
        /\ tr_runs' = tr_runs + 1
        /\ tr_proc' = [tr_proc EXCEPT ![p] =
              IF ~IsAudio(f)
              THEN [NoTrCall EXCEPT !.pc = "done", !.file = f,
                       !.run = tr_runs + 1, !.outcome = "raised",
                       !.err = "ValueError"]
              ELSE [NoTrCall EXCEPT !.pc = "lookup", !.file = f,
                       !.run = tr_runs + 1]]
        /\ UNCHANGED <<tr_rows, tr_chunks, tr_embedded, tr_key, tr_gen>>
        /\ UNCHANGED <<seg_vars, vs_vars, db_vars, os_call, ts_vars, ps_vars, ix_vars, pp_vars, st_vars>>

\* scalar_one_or_none over the rows of the file, and the code up to the next
\* await: the return of a completed record, or the record to work on.
TrLookup(p) ==
    LET ids == TranscriptionIds(tr_rows, tr_proc[p].file)
        id  == CHOOSE i \in ids : TRUE
    IN  /\ tr_proc[p].pc = "lookup"
        /\ tr_proc' = [tr_proc EXCEPT ![p] =
              IF Cardinality(ids) > 1
              THEN [@ EXCEPT !.pc = "done", !.outcome = "raised",
                       !.err = "MultipleResultsFound"]
              ELSE IF ids = {}
              THEN [@ EXCEPT !.pc = "insert"]
              ELSE IF tr_rows[id].status = "completed"
              THEN [@ EXCEPT !.pc = "done", !.row = id,
                       !.loaded = tr_rows[id], !.outcome = "returned"]
              ELSE [@ EXCEPT !.pc = "transcribe", !.row = id,
                       !.loaded = tr_rows[id]]]
        /\ UNCHANGED <<tr_rows, tr_runs, tr_chunks, tr_embedded, tr_key, tr_gen>>
        /\ UNCHANGED <<seg_vars, vs_vars, db_vars, os_call, ts_vars, ps_vars, ix_vars, pp_vars, st_vars>>

\* db.add(transcription), commit and refresh.
TrInsert(p) ==
    /\ tr_proc[p].pc = "insert"
    /\ tr_rows' = Append(tr_rows, NewTranscription(tr_proc[p].file))
    /\ tr_proc' = [tr_proc EXCEPT ![p] =
          [@ EXCEPT !.pc = "transcribe", !.row = Len(tr_rows) + 1,
                    !.loaded = NewTranscription(tr_proc[p].file)]]
    /\ UNCHANGED <<tr_runs, tr_chunks, tr_embedded, tr_key, tr_gen>>
    /\ UNCHANGED <<seg_vars, vs_vars, db_vars, os_call, ts_vars, ps_vars, ix_vars, pp_vars, st_vars>>

\* The try block up to its commit: the transcription returns a text, empty
\* or not, or raises; the except block marks the record failed, commits and
\* re-raises.
TrTranscribe(p) ==
    \E ok \in BOOLEAN, empty \in BOOLEAN, msg \in {"e1", "e2"} :
        LET call == tr_proc[p]
            new  == IF ok
                    THEN [call.loaded EXCEPT
                            !.status = "completed", !.error_message = None,
                            !.full_text = IF empty THEN 0 ELSE call.run]
                    ELSE [call.loaded EXCEPT
                            !.status = "failed", !.error_message = msg]
        IN  /\ call.pc = "transcribe"
            /\ ok => msg = "e1"
            /\ ~ok => ~empty
            /\ tr_rows' = [tr_rows EXCEPT ![call.row] =
                              NetUpdate(@, call.loaded, new)]
            /\ tr_proc' = [tr_proc EXCEPT ![p] =
                  IF ok
                  THEN [@ EXCEPT !.pc = "chunk", !.loaded = tr_rows'[call.row]]
                  ELSE [@ EXCEPT !.pc = "done", !.outcome = "raised",
                           !.err = "Exception"]]
            /\ UNCHANGED <<tr_runs, tr_chunks, tr_embedded, tr_key, tr_gen>>
            /\ UNCHANGED <<seg_vars, vs_vars, db_vars, os_call, ts_vars, ps_vars, ix_vars, pp_vars, st_vars>>

\* _create_chunks_from_transcription inside its try: no chunks for an empty
\* text, the old chunks replaced by n new ones, or an exception that is
\* logged; then `if chunks and settings.openai_api_key`.
TrChunk(p) ==
    \E n \in 0..MaxTrChunks :
        LET call == tr_proc[p]
            text == call.loaded.full_text
        IN  /\ call.pc = "chunk"
            /\ text = 0 => n = 0
            /\ IF n > 0
               THEN /\ tr_chunks' = [tr_chunks EXCEPT ![call.file] =
                                        [run |-> call.run, n |-> n]]
                    /\ tr_embedded' = [tr_embedded EXCEPT ![call.file] = 0]
               ELSE UNCHANGED <<tr_chunks, tr_embedded>>
            /\ tr_proc' = [tr_proc EXCEPT ![p] =
                  IF n > 0 /\ tr_key
                  THEN [@ EXCEPT !.pc = "embed", !.n = n]
                  ELSE [@ EXCEPT !.pc = "done", !.n = n,
                           !.outcome = "returned"]]
            /\ UNCHANGED <<tr_rows, tr_runs, tr_key, tr_gen>>
            /\ UNCHANGED <<seg_vars, vs_vars, db_vars, os_call, ts_vars, ps_vars, ix_vars, pp_vars, st_vars>>

\* generate_embeddings_for_chunks inside its try: the chunks that still
\* exist are embedded, or an exception is logged; then the return.
TrEmbed(p) ==
    \E ok \in BOOLEAN :
        LET call == tr_proc[p]
        IN  /\ call.pc = "embed"
            /\ tr_embedded' =
                  IF ok /\ tr_chunks[call.file].run = call.run
                  THEN [tr_embedded EXCEPT ![call.file] = tr_chunks[call.file].n]
                  ELSE tr_embedded
            /\ tr_proc' = [tr_proc EXCEPT ![p] =
                              [@ EXCEPT !.pc = "done", !.outcome = "returned"]]
            /\ UNCHANGED <<tr_rows, tr_runs, tr_chunks, tr_key, tr_gen>>
            /\ UNCHANGED <<seg_vars, vs_vars, db_vars, os_call, ts_vars, ps_vars, ix_vars, pp_vars, st_vars>>

\* The exception generate_embeddings_for_file ends with, by cause, and the
\* status code the route answers with.
GenerateResponse(cause) ==
    IF cause = "no_chunks" THEN [exc |-> "ValueError", status_code |-> 404]
    ELSE IF cause = "no_api_key" THEN [exc |-> "ValueError", status_code |-> 404]
    ELSE IF cause = "dimension_mismatch"
    THEN [exc |-> "ValueError", status_code |-> 404]
    ELSE IF cause = "provider" THEN [exc |-> "Exception", status_code |-> 500]
    ELSE [exc |-> None, status_code |-> 201]

\* POST /files/{file_id}/embeddings.
TrGenerate ==
    \E f \in TrFiles, failure \in {None, "provider", "dimension_mismatch"} :
        LET cause == IF tr_chunks[f].n = 0 THEN "no_chunks"
                     ELSE IF ~tr_key THEN "no_api_key"
                     ELSE failure
            r == GenerateResponse(cause)
        IN  /\ tr_gen' = [file |-> f, cause |-> cause, exc |-> r.exc,
                          status_code |-> r.status_code]
            /\ tr_embedded' = IF cause = None
                              THEN [tr_embedded EXCEPT ![f] = tr_chunks[f].n]
                              ELSE tr_embedded
            /\ UNCHANGED <<tr_rows, tr_proc, tr_runs, tr_chunks, tr_key>>
            /\ UNCHANGED <<seg_vars, vs_vars, db_vars, os_call, ts_vars, ps_vars, ix_vars, pp_vars, st_vars>>

TrInit ==
    /\ SegIdle
    /\ VsIdle
    /\ DbIdle
    /\ OsIdle
    /\ StIdle
    /\ PpIdle
    /\ IxIdle
    /\ TsIdle
    /\ PsIdle
    /\ tr_rows = << >>
    /\ tr_proc = [p \in TrCallers |-> NoTrCall]
    /\ tr_runs = 0
    /\ \E n \in 0..MaxTrChunks :
        tr_chunks = [f \in TrFiles |->
                        IF IsAudio(f) THEN NoChunks ELSE [run |-> 0, n |-> n]]
    /\ tr_embedded = [f \in TrFiles |-> 0]
    /\ tr_key \in BOOLEAN
    /\ tr_gen = NoGenerateCall

TrNext ==
    \/ \E p \in TrCallers :
        \/ TrCall(p)
        \/ TrLookup(p)
        \/ TrInsert(p)
        \/ TrTranscribe(p)
        \/ TrChunk(p)
        \/ TrEmbed(p)
    \/ TrGenerate

TrSpec == TrInit /\ [][TrNext]_vars

\* The calls one after the other: a call starts when no other is in flight.
TrCallAlone(p) ==
    /\ \A q \in TrCallers \ {p} : tr_proc[q].pc \in {"idle", "done"}
    /\ TrCall(p)

TqNext ==
    \/ \E p \in TrCallers :
        \/ TrCallAlone(p)
        \/ TrLookup(p)
        \/ TrInsert(p)
        \/ TrTranscribe(p)
        \/ TrChunk(p)
        \/ TrEmbed(p)
    \/ TrGenerate

TqSpec == TrInit /\ [][TqNext]_vars

(***************************************************************************)
(* Vector store claims.                                                    *)
(***************************************************************************)
\* C4: an add_embedding whose vector length differs from the dimension of a
\* non-empty index fails with the dimension-mismatch error and leaves the
\* index, the chunk_id_map and the dimension as they were; no add changes the
\* dimension of a non-empty index; an add on an empty (None) index succeeds
\* and sets the dimension to the length of its vector.
C4_AddKeepsDimension ==
    [][vs_call'.op = "add_embedding" =>
        LET v == vs_call'.vec
        IN  /\ (~vs_index.is_none /\ Len(v) # vs_dimension) =>
                /\ vs_call'.err = "ValueError: Embedding dimension mismatch"
                /\ UNCHANGED <<vs_index, vs_map, vs_dimension>>
            /\ (~vs_index.is_none /\ Len(v) # vs_index.d) =>
                /\ vs_call'.err # None
                /\ UNCHANGED <<vs_index, vs_map, vs_dimension>>
            /\ ~vs_index.is_none =>
                /\ vs_dimension' = vs_dimension
                /\ vs_index'.d = vs_index.d
            /\ vs_index.is_none =>
                /\ vs_call'.err = None
                /\ vs_dimension' = Len(v)
                /\ vs_index'.d = Len(v)
                /\ vs_index'.vecs = <<v>>
                /\ vs_map' = MapPut(EmptyMap, 0, vs_call'.chunk_id)
    ]_vars

\* An add was rejected for its dimension by an index that holds rows.
C4_Witness ==
    /\ vs_call.op = "add_embedding"
    /\ vs_call.err = "ValueError: Embedding dimension mismatch"
    /\ NTotal(vs_index) >= 2
    /\ Len(vs_call.vec) # vs_dimension

\* results is a ranking of the k nearest rows of E to v: distinct rows of E,
\* each with its squared L2 distance, in ascending order of distance, and no
\* row left out is nearer than one that is in.
IsReferenceTopK(E, v, k, results) ==
    /\ Len(results) = Min(k, Len(E))
    /\ \A i \in 1..Len(results) :
        /\ RowOf(E, results[i].chunk_id) # 0
        /\ results[i].distance = SqDist(E[RowOf(E, results[i].chunk_id)].vec, v)
    /\ \A i, j \in 1..Len(results) :
        i < j => /\ results[i].chunk_id # results[j].chunk_id
                 /\ results[i].distance <= results[j].distance
    /\ \A p \in 1..Len(E) :
        (\A i \in 1..Len(results) : results[i].chunk_id # E[p].chunk_id) =>
            \A i \in 1..Len(results) : results[i].distance <= SqDist(E[p].vec, v)

\* The k a caller asked for: top_k, or the configured default when omitted.
RequestedTopK(top_k) == IF top_k = NoTopK THEN SearchTopK ELSE top_k

\* C5: after build_index over E, search(v, k) with v of E's dimension returns
\* min(k, |E|) results that are a reference ranking of the k nearest rows.
C5_RebuildSearchMatchesReference ==
    (vs_call.op = "search" /\ vs_call.err = None) =>
        IsReferenceTopK(db_embeddings, vs_call.vec,
                        RequestedTopK(vs_call.top_k), vs_call.results)

\* The same for every top_k other than 0, which search replaces by the default.
RebuildSearchMatchesReferenceForPositiveTopK ==
    (vs_call.op = "search" /\ vs_call.err = None /\ vs_call.top_k # 0) =>
        IsReferenceTopK(db_embeddings, vs_call.vec,
                        RequestedTopK(vs_call.top_k), vs_call.results)

(***************************************************************************)
(* Snapshot and restart claims.                                            *)
(***************************************************************************)
LazySearchReturned == ps_call.op = "search" /\ ps_call.lazy

\* C11: a search that finds no index in memory queries the index only after
\* a rebuild from the embedding store: its results are a reference ranking
\* of the stored embeddings, and over an empty store it returns the empty
\* list without an error.
C11_LazyRebuildBeforeQuery ==
    LazySearchReturned =>
        /\ db_embeddings = << >> =>
               ps_call.err = None /\ ps_call.results = << >>
        /\ ps_call.err = None =>
               IsReferenceTopK(db_embeddings, ps_call.vec,
                               RequestedTopK(ps_call.top_k), ps_call.results)

\* The first search of a process that starts without a snapshot over a
\* store of two embeddings returns both, nearest first.
C11_Witness ==
    /\ LazySearchReturned
    /\ ps_call.loaded
    /\ ps_call.top_k = NoTopK
    /\ Len(db_embeddings) = 2
    /\ Len(ps_call.results) = 2
    /\ ps_call.results[1].distance < ps_call.results[2].distance

\* A search over an empty store that finds no index returns the empty list.
LazySearchOfEmptyStoreReached ==
    /\ LazySearchReturned
    /\ db_embeddings = << >>
    /\ ps_call.results = << >>

LoadReturned == ps_call.op = "status" /\ ps_call.loaded

\* C15: load on a snapshot that is missing, or has only one of its two
\* files, leaves no index in memory.
C15_LoadOfIncompleteSnapshotIsNoIndex ==
    (LoadReturned /\ (disk_index.is_none \/ ~disk_map.exists)) => vs_index.is_none

\* The same when it is the index file that is missing.
LoadWithoutIndexFileIsNoIndex ==
    (LoadReturned /\ disk_index.is_none) => vs_index.is_none

\* A search of a restarted process is served from an index file that has no
\* mapping file: nothing is rebuilt and nothing is found, though the store
\* holds an embedding.
SearchServedFromIncompleteSnapshot ==
    /\ ps_call.op = "search"
    /\ ps_call.loaded
    /\ ~ps_call.lazy
    /\ ~disk_map.exists
    /\ db_embeddings # << >>
    /\ ps_call.err = None
    /\ ps_call.results = << >>

\* C16: a load after a restart restores the index and the mapping that were
\* in memory when a handler last reached its save point, the empty index
\* left by a rebuild over no embeddings included.
C16_PersistLoadRoundTrip ==
    (LoadReturned /\ ps_persisted.written) =>
        /\ vs_index = ps_persisted.index
        /\ ~vs_index.is_none => vs_map = ps_persisted.map

\* The same when the index at the save point was not empty.
RoundTripOfNonEmptyIndex ==
    (LoadReturned /\ ps_persisted.written /\ ~ps_persisted.index.is_none) =>
        /\ vs_index = ps_persisted.index
        /\ vs_map = ps_persisted.map

\* A restart after a rebuild over no embeddings loads the older snapshot.
OlderSnapshotResurrected ==
    /\ LoadReturned
    /\ ps_persisted.written
    /\ ps_persisted.index.is_none
    /\ db_embeddings = << >>
    /\ NTotal(vs_index) >= 1

(***************************************************************************)
(* Ingestion and rebuild claims.                                           *)
(***************************************************************************)
CommittedChunkIds == {db_embeddings[i].chunk_id : i \in DOMAIN db_embeddings}

IndexedChunkIds ==
    IF vs_index.is_none THEN {} ELSE {vs_map[p] : p \in DOMAIN vs_map}

\* C12: in every reachable state, every chunk_id in the index has a
\* committed embedding; the add of a chunk follows the commit of its row.
C12_IndexedChunksAreCommitted == IndexedChunkIds \subseteq CommittedChunkIds

\* During a batch: the chunks added so far are in the index and none of
\* them has a committed embedding.
UncommittedInIndexDuringBatch ==
    /\ ix_gen.pc = "loop"
    /\ ix_gen.added # {}
    /\ ~(ix_gen.added \subseteq CommittedChunkIds)
    /\ ix_gen.added \subseteq IndexedChunkIds

\* A batch that failed after its first add: the call is over, the chunk is
\* in the index, and no embedding of it was committed.
AbortLeavesUncommittedInIndex ==
    /\ ix_gen.pc = "idle"
    /\ ix_reb.pc = "idle"
    /\ ix_srch.pc = "idle"
    /\ ~(IndexedChunkIds \subseteq CommittedChunkIds)

WritersInFlight ==
    {w \in {"generate", "rebuild", "search"} :
        \/ w = "generate" /\ ix_gen.pc # "idle"
        \/ w = "rebuild" /\ ix_reb.pc # "idle"
        \/ w = "search" /\ ix_srch.pc = "build"}

\* The matrix and the mapping are in step: one chunk_id per row.
InStep == ~vs_index.is_none => DOMAIN vs_map = 0..(NTotal(vs_index) - 1)

WritersNeverInterleave == Cardinality(WritersInFlight) <= 1

SearchObservesInStep == ix_srch.pc = "query" => InStep

AddedVectorsKept ==
    ix_gen.pc # "idle" => ix_gen.added \subseteq IndexedChunkIds

\* C14: a rebuild, an ingestion and a persist never interleave; no search
\* reads a matrix and a mapping that are out of step; a rebuild that runs
\* during an ingestion discards no vector the ingestion has added.
C14_WritersSerialized ==
    /\ WritersNeverInterleave
    /\ SearchObservesInStep
    /\ AddedVectorsKept

\* A rebuild that read the table before the commit of a batch replaces the
\* index after the batch's add: the added chunk is no longer in the index.
RebuildDiscardsAddedVector ==
    /\ ix_gen.pc = "loop"
    /\ ix_gen.added # {}
    /\ ix_reb.pc = "idle"
    /\ ~(ix_gen.added \subseteq IndexedChunkIds)

\* The loss outlives both calls: a committed embedding is in no index, in
\* memory or on disk, and the index is not None, so no search rebuilds it.
CommittedChunkMissingFromIndex ==
    /\ ix_gen.pc = "idle"
    /\ ix_reb.pc = "idle"
    /\ ix_srch.pc = "idle"
    /\ ~vs_index.is_none
    /\ ~(CommittedChunkIds \subseteq IndexedChunkIds)

(***************************************************************************)
(* Re-segmentation claims.                                                 *)
(***************************************************************************)
ChunkIndexes(R) == {r.chunk_index : r \in R}

\* C13: in every committed state the chunks of a document come from one
\* segmentation run and their chunk_index values are 0..n-1, each once.
C13_ChunksOfOneRun ==
    \A f \in PpFiles :
        LET R == RowsOfFile(pp_rows, f)
        IN  /\ \A a, b \in R : a.run = b.run
            /\ \A a, b \in R : a.chunk_index = b.chunk_index => a = b
            /\ ChunkIndexes(R) = 0..(Cardinality(R) - 1)

\* The rows of each single run are whole: 0..n-1, committed together.
EachRunIsWhole ==
    \A f \in PpFiles, run \in 1..MaxPpRuns :
        LET R == {r \in RowsOfFile(pp_rows, f) : r.run = run}
        IN  ChunkIndexes(R) = 0..(Cardinality(R) - 1)

\* Two calls for one document have both finished; the document holds the
\* chunks of both runs and two chunks with chunk_index 0.
TwoRunsVisible ==
    /\ \A p \in PpCallers : pp_proc[p].pc = "done"
    /\ \E a, b \in RowsOfFile(pp_rows, 1) :
          a.run # b.run /\ a.chunk_index = 0 /\ b.chunk_index = 0

\* The calls that no other caller has ever overlapped.
CalledAlone(p) == \A q \in PpCallers \ {p} : pp_proc[q].pc = "idle"

\* C19: after a call that ended in a usage error, the chunks of the document
\* are the chunks it had before the call.
C19_UsageErrorChangesNothing ==
    \A p \in PpCallers :
        (/\ pp_proc[p].pc = "failed"
         /\ pp_proc[p].err \in UsageErrors
         /\ CalledAlone(p)) =>
            RowsOfFile(pp_rows, pp_proc[p].file) = pp_proc[p].before

\* The same for the rejection of a file that is not a PDF.
UnsupportedTypeChangesNothing ==
    \A p \in PpCallers :
        (/\ pp_proc[p].pc = "failed"
         /\ pp_proc[p].err = "ValueError: File type is not supported"
         /\ CalledAlone(p)) =>
            RowsOfFile(pp_rows, pp_proc[p].file) = pp_proc[p].before

UnsupportedTypeRejectedWithChunks ==
    \E p \in PpCallers :
        /\ pp_proc[p].pc = "failed"
        /\ pp_proc[p].err = "ValueError: File type is not supported"
        /\ CalledAlone(p)
        /\ pp_proc[p].before # {}

\* A call on a PDF with chunks ends with "no text": the chunks are gone.
EmptyTextErrorDeletedChunks ==
    \E p \in PpCallers :
        /\ pp_proc[p].pc = "failed"
        /\ pp_proc[p].err = "ValueError: No text could be extracted from the PDF"
        /\ CalledAlone(p)
        /\ pp_proc[p].before # {}
        /\ RowsOfFile(pp_rows, pp_proc[p].file) = {}

(***************************************************************************)
(* Embedding store and index claims.                                       *)
(***************************************************************************)
TableEntries ==
    {<<db_embeddings[i].chunk_id, db_embeddings[i].vec>> : i \in DOMAIN db_embeddings}

IndexEntries ==
    IF vs_index.is_none THEN {}
    ELSE {<<vs_map[p], vs_index.vecs[p + 1]>> : p \in DOMAIN vs_map}

AtMostOneEmbeddingPerChunk ==
    \A i, j \in DOMAIN db_embeddings :
        db_embeddings[i].chunk_id = db_embeddings[j].chunk_id => i = j

NoChunkTwiceInIndex ==
    ~vs_index.is_none => \A p, q \in DOMAIN vs_map : vs_map[p] = vs_map[q] => p = q

NoChunkTwiceInResults ==
    \A i, j \in DOMAIN os_call.results :
        os_call.results[i].chunk_id = os_call.results[j].chunk_id => i = j

\* C17: the embedding store holds one embedding per chunk at most, the index
\* holds the (chunk_id, vector) entries a rebuild from the store would
\* give, and no chunk_id is twice in the index or in a search result.
C17_IndexMatchesStore ==
    /\ AtMostOneEmbeddingPerChunk
    /\ IndexEntries = TableEntries
    /\ NoChunkTwiceInIndex
    /\ NoChunkTwiceInResults

\* Every stored embedding is in the index, once an index exists.
StoreIsCoveredByIndex == ~vs_index.is_none => TableEntries \subseteq IndexEntries

\* A chunk regenerated with a new vector is in the index with both.
RegeneratedChunkTwiceInIndex ==
    /\ AtMostOneEmbeddingPerChunk
    /\ \E p, q \in DOMAIN vs_map :
          /\ p # q
          /\ vs_map[p] = vs_map[q]
          /\ vs_index.vecs[p + 1] # vs_index.vecs[q + 1]
          /\ vs_map[p] \in DOMAIN db_chunks

ChunkTwiceInSearchResult ==
    /\ os_call.op = "search"
    /\ ~NoChunkTwiceInResults

\* C18: the embedding store holds no embedding of a chunk that no longer
\* exists.
C18_NoOrphanEmbedding ==
    \A i \in DOMAIN db_embeddings : db_embeddings[i].chunk_id \in DOMAIN db_chunks

\* delete_file leaves no embedding of the chunks it deletes.
DeleteFileLeavesNoOrphan ==
    [][(db_files' # db_files /\ C18_NoOrphanEmbedding) => C18_NoOrphanEmbedding']_vars

OrphanAfterDeleteChunks ==
    /\ db_chunks = EmptyMap
    /\ db_embeddings # << >>
    /\ db_files = Files

DeleteFileRemovedEmbeddings ==
    /\ db_files # Files
    /\ db_embeddings = << >>
    /\ ~vs_index.is_none

(***************************************************************************)
(* Orchestrator search claims.                                             *)
(***************************************************************************)
DescendingScore(rs) ==
    \A i \in 1..Len(rs) - 1 :
        /\ ~ScoreLess(rs[i].score, rs[i + 1].score)
        /\ rs[i].distance <= rs[i + 1].distance

SearchReturned == os_call.op = "search" /\ os_call.err = None

\* C10: a search(query, top_k, document_filter) that returns gives only
\* results of document_filter when a filter is given, at most top_k results
\* (the default search_top_k when top_k is not given), only chunks present in
\* the chunk store, in descending order of score (ascending distance).
C10_SearchFiltersBoundsOrders ==
    SearchReturned =>
        /\ os_call.file_id # NoFile =>
               \A i \in 1..Len(os_call.results) :
                   os_call.results[i].file_id = os_call.file_id
        /\ Len(os_call.results) <=
               (IF os_call.top_k = NoTopK THEN SearchTopK ELSE os_call.top_k)
        /\ \A i \in 1..Len(os_call.results) :
               /\ os_call.results[i].chunk_id \in DOMAIN db_chunks
               /\ db_chunks[os_call.results[i].chunk_id] = os_call.results[i].file_id
        /\ DescendingScore(os_call.results)

\* The same four properties for a search whose top_k and document_filter are
\* not 0, with the raw candidates fetched before filtering numbering at most
\* top_k.
SearchFiltersBoundsOrdersForNonZeroInputs ==
    (SearchReturned /\ os_call.top_k # 0 /\ os_call.file_id # 0) =>
        /\ Len(os_call.raw) <= EffectiveTopK(os_call.top_k)
        /\ C10_SearchFiltersBoundsOrders

\* A search with top_k = 0 that returns a result.
SearchZeroTopKReturnsResults ==
    /\ SearchReturned
    /\ os_call.top_k = 0
    /\ Len(os_call.results) >= 1

\* A search filtered to document 0 that returns a chunk of another document.
SearchZeroFilterReturnsResults ==
    /\ SearchReturned
    /\ os_call.top_k # 0
    /\ os_call.file_id = 0
    /\ Len(os_call.results) >= 1

\* A filtered search that drops a raw candidate of another document and
\* returns two results in score order.
SearchFilterDropsCandidate ==
    /\ SearchReturned
    /\ os_call.file_id \in Files
    /\ Len(os_call.raw) = 3
    /\ Len(os_call.results) = 2
    /\ os_call.results[1].distance < os_call.results[2].distance

(***************************************************************************)
(* Aligner claims.                                                         *)
(***************************************************************************)
\* The whitespace tokens of t: its maximal runs of non-whitespace characters.
WordsAt(t) ==
    {SubSeq(t, p[1], p[2]) :
        p \in {x \in (1..Len(t)) \X (1..Len(t)) :
                  /\ x[1] <= x[2]
                  /\ \A k \in x[1]..x[2] : t[k] \notin Whitespace
                  /\ x[1] = 1 \/ t[x[1] - 1] \in Whitespace
                  /\ x[2] = Len(t) \/ t[x[2] + 1] \in Whitespace}}

\* The Jaccard ratio of token sets A and B is at least num/den.
JaccardAtLeast(A, B, threshold) ==
    /\ A # {}
    /\ B # {}
    /\ Cardinality(A \cap B) * threshold.den
           >= threshold.num * Cardinality(A \cup B)

OverlapReturned == ts_fn = "_text_overlap" /\ ts_pc = "return"

RECURSIVE JoinTexts(_, _, _)
\* The texts of hits[s..l] joined with single spaces.
JoinTexts(hits, s, l) ==
    IF s = l THEN hits[s].text
    ELSE JoinTexts(hits, s, l - 1) \o <<" ">> \o hits[l].text

MaxOf(S) == CHOOSE x \in S : \A y \in S : y <= x

MinOf(S) == CHOOSE x \in S : \A y \in S : x <= y

\* out is the sequential grouping of hits: the hits split into consecutive
\* runs, hit i + 1 in the run of hit i iff its start is at most the largest
\* end of the run so far plus gap, and each group is its run's first start,
\* largest end, joined text and end - start.
IsSequentialGrouping(hits, gap, out) ==
    LET n == Len(hits)
    IN  IF n = 0 THEN out = << >>
        ELSE \E cuts \in SUBSET (1..(n - 1)) :
            LET starts == {1} \cup {c + 1 : c \in cuts}
                First(i) == MaxOf({s \in starts : s <= i})
                RunEnd(i) == MaxOf({hits[j].end : j \in First(i)..i})
                Last(s) == MinOf({c \in cuts : c >= s} \cup {n})
            IN  /\ \A i \in 1..(n - 1) :
                       (i \notin cuts) <=> (hits[i + 1].start <= RunEnd(i) + gap)
                /\ Len(out) = Cardinality(starts)
                /\ \A k \in 1..Len(out) :
                       LET s == SetToSeq(starts)[k]
                       IN  /\ out[k].start = hits[s].start
                           /\ out[k].end = RunEnd(Last(s))
                           /\ out[k].text = JoinTexts(hits, s, Last(s))
                           /\ out[k].duration = out[k].end - out[k].start

\* The groups of out that contain the range [start, end].
GroupsAround(out, start, end) ==
    {k \in 1..Len(out) : out[k].start <= start /\ end <= out[k].end}

Ranges(out) == [k \in 1..Len(out) |-> <<out[k].start, out[k].end>>]

MergeReturned == ts_fn = "_merge_overlapping_segments" /\ ts_pc = "return"

\* C7: merging hits sorted by start is the sequential grouping; consecutive
\* groups are more than gap_threshold apart, every hit lies inside exactly
\* one group, and [(0,5),(6,8),(20,22)] with gap 2 gives (0,8) and (20,22).
C7_MergeIsSequential ==
    MergeReturned =>
        LET hits == ts_args.segments
            gap == ts_args.gap_threshold
        IN  /\ IsSequentialGrouping(hits, gap, ts_ret)
            /\ \A k \in 1..(Len(ts_ret) - 1) :
                   ts_ret[k + 1].start > ts_ret[k].end + gap
            /\ \A i \in 1..Len(hits) :
                   Cardinality(GroupsAround(ts_ret, hits[i].start, hits[i].end)) = 1
            /\ (hits = ExampleHits /\ gap = GapThreshold) =>
                   Ranges(ts_ret) = <<<<0, 8>>, <<20, 22>>>>

\* Three hits, the second inside the first and the third within the gap of
\* the first's end only, merged into one group.
C7_Witness ==
    /\ MergeReturned
    /\ Len(ts_args.segments) = 3
    /\ ts_args.segments[2].end < ts_args.segments[1].end
    /\ ts_args.segments[3].start > ts_args.segments[2].end + ts_args.gap_threshold
    /\ Len(ts_ret) = 1
    /\ ts_ret[1].end = ts_args.segments[3].end
    /\ ts_ret[1].text = <<"a", " ", "b", " ", "c">>

IsDigits(s) == \A i \in 1..Len(s) : \E d \in 1..10 : Digits[d] = s[i]

RECURSIVE NumberOf(_)
\* The number a sequence of digits writes.
NumberOf(s) ==
    IF s = << >> THEN 0
    ELSE 10 * NumberOf(SubSeq(s, 1, Len(s) - 1))
             + (CHOOSE d \in 0..9 : Digits[d + 1] = s[Len(s)])

FormatReturned == ts_fn = "format_timestamp" /\ ts_pc = "return"

FormatMillisWithinOne ==
    FormatReturned =>
        LET ms == NumberOf(SubSeq(ts_ret, Len(ts_ret) - 2, Len(ts_ret)))
        IN  (ts_args.millis % 1000) - ms \in {0, 1}

FormatWithoutHoursReached ==
    /\ FormatReturned
    /\ ts_args.millis = 3599998
    /\ ts_ret = <<"5", "9", ":", "5", "9", ".", "9", "9", "8">>

Orders(n) == {p \in [1..n -> 1..n] : \A i, j \in 1..n : p[i] = p[j] => i = j}

RangeSet(out) == {<<out[k].start, out[k].end>> : k \in 1..Len(out)}

\* The segment's lower-cased token set reaches the 0.3 Jaccard threshold
\* against the query's.
ReachesThreshold(query, segment) ==
    JaccardAtLeast(WordsAt(Lower(query)), WordsAt(Lower(segment.text)),
                   AlignerThreshold)

FindReturned == ts_fn = "_find_matching_segments" /\ ts_pc = "return"

\* C9: _find_matching_segments returns ranges in ascending order of start,
\* the set of (start, end) ranges is the same for every order of the
\* transcript segments, and every segment that reaches the 0.3 threshold
\* against the query lies inside one returned range.
C9_FindIsOrderIndependent ==
    FindReturned =>
        LET query == ts_args.search_text
            segments == ts_args.segments
            n == Len(ts_args.segments)
        IN  /\ \A k \in 1..(Len(ts_ret) - 1) : ts_ret[k].start <= ts_ret[k + 1].start
            /\ \A p \in Orders(n) :
                   RangeSet(FindMatchingSegments(query, [i \in 1..n |-> segments[p[i]]]))
                       = RangeSet(ts_ret)
            /\ \A i \in 1..n :
                   ReachesThreshold(query, segments[i]) =>
                       Cardinality(GroupsAround(ts_ret, segments[i].start,
                                                segments[i].end)) = 1

\* A transcript out of order: the hit (6,7) comes first, a segment below
\* the threshold second and the hit (0,4) last; one range (0,7) is returned.
C9_Witness ==
    /\ FindReturned
    /\ Len(ts_args.segments) = 3
    /\ ts_args.segments[1].start = 6
    /\ ~ReachesThreshold(ts_args.search_text, ts_args.segments[2])
    /\ ts_args.segments[3].start = 0
    /\ ts_args.segments[3].text = <<"B">>
    /\ RangeSet(ts_ret) = {<<0, 7>>}

(***************************************************************************)
(* Request validation claims.                                              *)
(***************************************************************************)
ValidPair(cs, ov) == cs > 0 /\ 0 <= ov /\ ov < cs

\* A value the caller gave (neither omitted nor zero) is the value used.
UsedAsGiven ==
    /\ (seg_req.chunk_size.given /\ seg_req.chunk_size.value # 0) =>
           seg_cs = seg_req.chunk_size.value
    /\ (seg_req.chunk_overlap.given /\ seg_req.chunk_overlap.value # 0) =>
           seg_ov = seg_req.chunk_overlap.value

\* C20: the chunker runs only with an effective pair that has
\* chunk_size > 0 and 0 <= overlap < chunk_size, and a valid value of the
\* caller is used as given.
C20_SegmentsOnlyValidPairs ==
    seg_pc \in {"loop", "done"} => ValidPair(seg_cs, seg_ov) /\ UsedAsGiven

\* The second half alone.
GivenValuesUsedAsGiven == seg_pc \in {"loop", "done"} => UsedAsGiven

\* chunk_size = 2 with chunk_overlap omitted: the pair is (2, 200), a chunk
\* has been emitted and the loop goes on.
InvalidPairSegmented ==
    /\ seg_req = [chunk_size |-> Arg(2), chunk_overlap |-> Omitted]
    /\ seg_cs = 2
    /\ seg_ov = DefaultChunkOverlap
    /\ seg_pc = "loop"
    /\ Len(seg_chunks) = MaxChunks
    /\ seg_start < 0

\* A valid pair of the caller reaches the chunker unchanged.
ValidPairSegmented ==
    /\ seg_req = [chunk_size |-> Arg(3), chunk_overlap |-> Arg(1)]
    /\ seg_cs = 3
    /\ seg_ov = 1
    /\ seg_pc = "done"
    /\ Len(seg_records) >= 2

(***************************************************************************)
(* Segmenter claims.                                                       *)
(***************************************************************************)
RECURSIVE ConcatTexts(_)
ConcatTexts(cs) ==
    IF cs = << >> THEN << >> ELSE Head(cs).text \o ConcatTexts(Tail(cs))

RECURSIVE SumCharCount(_)
SumCharCount(rs) ==
    IF rs = << >> THEN 0 ELSE Head(rs).char_count + SumCharCount(Tail(rs))

NoWhitespace(t) == SelectSeq(t, LAMBDA c : c \notin Whitespace)

\* C1: every chunk emitted by the fixed strategy has a non-empty text and the
\* start_char values increase strictly from one chunk to the next.
C1_FixedChunksNonEmptyIncreasing ==
    \A i \in 1..Len(seg_chunks) :
        /\ seg_chunks[i].text # << >>
        /\ i > 1 => seg_chunks[i - 1].start_char < seg_chunks[i].start_char

\* C2: with overlap 0 the windows [start_char, end_char) of the returned
\* chunks are non-empty, contiguous and disjoint, they start at 0 and end at
\* len(text), each chunk's text is the stripped slice of its window, and the
\* concatenated chunk texts equal the text up to whitespace.
C2_ZeroOverlapRoundTrip ==
    (seg_pc = "done" /\ seg_ov = 0) =>
        /\ Len(seg_chunks) >= 1
        /\ seg_chunks[1].start_char = 0
        /\ seg_chunks[Len(seg_chunks)].end_char = Len(seg_text)
        /\ \A i \in 1..Len(seg_chunks) :
            /\ seg_chunks[i].start_char < seg_chunks[i].end_char
            /\ seg_chunks[i].text =
                 Strip(SubSeq(seg_text, seg_chunks[i].start_char + 1,
                              seg_chunks[i].end_char))
            /\ i > 1 => seg_chunks[i].start_char = seg_chunks[i - 1].end_char
        /\ NoWhitespace(ConcatTexts(seg_chunks)) = NoWhitespace(seg_text)

\* A zero-overlap run that returned several chunks, one of them trimmed back
\* to a space and one of them shortened by strip().
C2_Witness ==
    /\ seg_pc = "done"
    /\ seg_ov = 0
    /\ Len(seg_chunks) >= 2
    /\ \E i \in 1..Len(seg_chunks) :
        seg_chunks[i].end_char - seg_chunks[i].start_char < seg_cs
        /\ i < Len(seg_chunks)
    /\ \E i \in 1..Len(seg_chunks) :
        Len(seg_chunks[i].text) < seg_chunks[i].end_char - seg_chunks[i].start_char

\* C3: the 2,500-character text with chunk_size 1000 and overlap 200 yields
\* exactly 3 chunks, chunk_index 0, 1, 2, whose char_count sum to >= 2,500.
C3_ThreeChunks ==
    (seg_pc = "done" /\ Len(seg_text) = 2500
        /\ seg_cs = DefaultChunkSize /\ seg_ov = DefaultChunkOverlap) =>
        /\ Len(seg_records) = 3
        /\ \A i \in 1..Len(seg_records) : seg_records[i].chunk_index = i - 1
        /\ SumCharCount(seg_records) >= 2500

\* A step of the while loop of _chunk_fixed_size has been taken.
FixedStepTaken == seg_chunks' # seg_chunks

\* C24: the next window starts at naive_end - overlap, naive_end being
\* start + chunk_size, whether or not the chunk was trimmed back to a space.
C24_NextStartFromNaiveEnd ==
    [][FixedStepTaken => seg_start' = seg_start + seg_cs - seg_ov]_vars

\* The same for the windows that are not trimmed.
UntrimmedNextStartFromNaiveEnd ==
    [][(FixedStepTaken /\ ~FixedTrims(seg_text, seg_start, seg_cs)) =>
          seg_start' = seg_start + seg_cs - seg_ov]_vars

\* After a trimmed window the next one starts at the recorded end_char
\* less the overlap.
TrimmedNextStartFromRecordedEnd ==
    [][(FixedStepTaken /\ FixedTrims(seg_text, seg_start, seg_cs)) =>
          /\ seg_chunks'[Len(seg_chunks')].end_char < seg_start + seg_cs
          /\ seg_start' = seg_chunks'[Len(seg_chunks')].end_char - seg_ov]_vars

\* A trimmed window has been emitted and the start that follows it is to
\* the left of naive_end - overlap.
TrimmedWindowEmitted ==
    /\ seg_chunks # << >>
    /\ LET last == seg_chunks[Len(seg_chunks)]
       IN  /\ FixedTrims(seg_text, last.start_char, seg_cs)
           /\ seg_start = last.end_char - seg_ov
           /\ seg_start < last.start_char + seg_cs - seg_ov

\* C27: with chunk_size > 0 and 0 <= overlap < chunk_size every iteration
\* moves the window start strictly forward, and never below 0, so the loop
\* ends.
C27_FixedStartMovesForward ==
    [][FixedStepTaken => seg_start' > seg_start /\ seg_start' >= 0]_vars

\* The same for the windows that are not trimmed.
UntrimmedStartMovesForward ==
    [][(FixedStepTaken /\ ~FixedTrims(seg_text, seg_start, seg_cs)) =>
          seg_start' > seg_start]_vars

\* The loop has emitted MaxChunks chunks from one start and has not ended.
FixedStartStuck ==
    /\ seg_pc = "loop"
    /\ Len(seg_chunks) = MaxChunks
    /\ seg_start < Len(seg_text)
    /\ \A i \in 1..Len(seg_chunks) : seg_chunks[i].start_char = seg_start

(***************************************************************************)
(* Strategy claims.                                                        *)
(***************************************************************************)
\* C21: the strategy is one of fixed, sentence and paragraph; a request that
\* names any other strategy is rejected before any chunker runs, it is never
\* chunked under a default.
C21_UnknownStrategyRejected ==
    st_strategy \notin (Strategies \cup {None}) =>
        /\ seg_pc = "split"
        /\ seg_chunks = << >>
        /\ seg_records = << >>

\* A strategy that is none of the three has been chunked by the fixed-size
\* loop and its rows created.
UnknownStrategyChunkedAsFixed ==
    /\ st_strategy = "semantic"
    /\ seg_pc = "done"
    /\ seg_chunks # << >>
    /\ seg_records = ChunkRecords(seg_chunks)
    /\ st_units = << >>
    /\ st_current = << >>

\* The sentence loop runs for the sentence strategy only.
SentenceLoopOnlyForSentence ==
    seg_pc = "sentence" => st_strategy = "sentence"

\* The fixed-size loop runs for every strategy but sentence and paragraph.
FixedLoopForTheRest ==
    seg_pc = "loop" => st_strategy \notin {"sentence", "paragraph"}

\* The sentences of the chunks, in chunk order.
RECURSIVE SentencesIn(_)
SentencesIn(chunks) ==
    IF chunks = << >> THEN << >>
    ELSE SplitSentences(chunks[1].text) \o SentencesIn(Tail(chunks))

\* The paragraphs of the chunks, in chunk order.
RECURSIVE ParagraphsIn(_)
ParagraphsIn(chunks) ==
    IF chunks = << >> THEN << >>
    ELSE SplitBlankLine(chunks[1].text) \o ParagraphsIn(Tail(chunks))

\* The stripped paragraphs of a text that are not empty, in order.
RECURSIVE NonEmptyStripped(_)
NonEmptyStripped(paras) ==
    IF paras = << >> THEN << >>
    ELSE IF Strip(Head(paras)) = << >> THEN NonEmptyStripped(Tail(paras))
    ELSE <<Strip(Head(paras))>> \o NonEmptyStripped(Tail(paras))

SentenceStepTaken == seg_pc = "sentence" /\ st_units' # st_units

SentenceClosed == Len(seg_chunks') = Len(seg_chunks) + 1

\* The chunk under construction with the next sentence joined to it is
\* longer than chunk_size.
WouldExceed ==
    Len(Join(Append(st_current, Head(st_units)), <<" ">>)) > seg_cs

\* The chunk under construction after a close: the trailing
\* min(overlap, length) characters of the closed chunk, a space, the sentence.
SeededFrom(closed_text, sentence, ov) ==
    IF ov > 0
    THEN PySlice(closed_text, Len(closed_text) - Min(ov, Len(closed_text)),
                 Len(closed_text)) \o <<" ">> \o sentence
    ELSE sentence

SentenceRunDone == seg_pc = "done" /\ st_strategy = "sentence"

\* C25: under the sentence strategy a chunk is closed exactly when it is not
\* empty and adding the next sentence to it would exceed chunk_size; the
\* chunk after a closed one begins with the trailing min(overlap, length)
\* characters of the closed chunk's text, a space, and the next sentence;
\* with overlap 0 nothing is seeded and every sentence is in exactly one
\* chunk, in order.
C25_SentenceChunksCloseAtChunkSize ==
    /\ [][SentenceStepTaken =>
            /\ SentenceClosed <=> (st_current # << >> /\ WouldExceed)
            /\ SentenceClosed =>
                 Join(st_current', <<" ">>) =
                     SeededFrom(seg_chunks'[Len(seg_chunks')].text,
                                Head(st_units), seg_ov)]_vars
    /\ []((SentenceRunDone /\ seg_ov = 0) =>
            SentencesIn(seg_chunks) = SplitSentences(seg_text))

\* A chunk is closed exactly when it is not empty and the running
\* current_size with the length of the next sentence exceeds chunk_size.
ClosedWhenRunningSizeExceeds ==
    [][SentenceStepTaken =>
        (SentenceClosed <=>
            (st_current # << >> /\ st_size + Len(Head(st_units)) > seg_cs))]_vars

\* Whenever a chunk is closed, adding the sentence would have exceeded
\* chunk_size.
ClosedOnlyWhenExceeding ==
    [][(SentenceStepTaken /\ SentenceClosed) => WouldExceed]_vars

\* The chunk after a closed one is seeded as C25 says.
SeedIsOverlapThenSentence ==
    [][(SentenceStepTaken /\ SentenceClosed) =>
        Join(st_current', <<" ">>) =
            SeededFrom(seg_chunks'[Len(seg_chunks')].text,
                       Head(st_units), seg_ov)]_vars

\* With overlap 0 every sentence is in exactly one chunk, in order.
SentencesKeptInOrder ==
    (SentenceRunDone /\ seg_ov = 0) =>
        SentencesIn(seg_chunks) = SplitSentences(seg_text)

\* The running size is the length of the joined chunk in the first chunk
\* plus one, and the length itself in every later chunk.
RunningSizeOfLaterChunks ==
    (seg_pc = "sentence" /\ st_current # << >>) =>
        st_size = Len(Join(st_current, <<" ">>))
                    + (IF seg_chunks = << >> THEN 1 ELSE 0)

\* A chunk of two sentences, longer than chunk_size, that was not closed
\* between them.
OversizeChunkNotClosed ==
    /\ SentenceRunDone
    /\ seg_ov = 0
    /\ \E i \in 1..Len(seg_chunks) :
        /\ Len(seg_chunks[i].text) > seg_cs
        /\ Len(SplitSentences(seg_chunks[i].text)) > 1

\* C26: the paragraph strategy seeds no overlap: the non-empty stripped
\* paragraphs of the text are each in exactly one chunk, in order, and the
\* chunks are the same for every overlap.
C26_ParagraphsIgnoreOverlap ==
    (seg_pc = "done" /\ st_strategy = "paragraph") =>
        /\ ParagraphsIn(seg_chunks) = NonEmptyStripped(SplitBlankLine(seg_text))
        /\ \A ov \in 0..MaxChunkSize :
            ChunkByParagraph(seg_text, seg_cs, ov) = seg_chunks

\* A paragraph run with a positive overlap that closed a chunk.
C26_Witness ==
    /\ seg_pc = "done"
    /\ st_strategy = "paragraph"
    /\ seg_ov > 0
    /\ Len(seg_chunks) >= 2

(***************************************************************************)
(* Vector index consistency claims.                                        *)
(***************************************************************************)
\* C28: after every load, rebuild, add and search on the vector index,
\* failed calls and a rebuild over no embeddings included, the keys of
\* chunk_id_map are exactly the positions 0..N-1 of the N vectors in the
\* index (no keys when the index is empty), and the recorded dimension is
\* the dimension of the stored vectors.
C28_MapAndDimensionMatchIndex ==
    /\ DOMAIN vs_map = 0..(NTotal(vs_index) - 1)
    /\ ~vs_index.is_none => vs_dimension = vs_index.d

\* add_embedding and search keep the map and the dimension in step with the
\* index, whether they fail or not.
AddAndSearchKeepMapInStep ==
    [][(vs_call'.op \in {"add_embedding", "search"}
            /\ C28_MapAndDimensionMatchIndex) =>
        C28_MapAndDimensionMatchIndex']_vars

\* A build_index that returns over a table that is not empty leaves the map
\* and the dimension in step with the index it built.
RebuildOverRowsKeepsMapInStep ==
    (vs_call.op = "build_index" /\ vs_call.err = None /\ ~vs_index.is_none) =>
        C28_MapAndDimensionMatchIndex

\* A build_index over no embeddings dropped the index and kept the map.
StaleMapAfterEmptyRebuild ==
    /\ vs_call.op = "build_index"
    /\ vs_call.err = None
    /\ vs_index.is_none
    /\ vs_map # EmptyMap

\* A build_index that failed on rows of differing length kept the index and
\* replaced the dimension and the map.
FailedRebuildReplacedMap ==
    /\ vs_call.op = "build_index"
    /\ vs_call.err # None
    /\ ~vs_index.is_none
    /\ \/ vs_dimension # vs_index.d
       \/ DOMAIN vs_map # 0..(NTotal(vs_index) - 1)

(***************************************************************************)
(* Transcription and ingestion claims.                                     *)
(***************************************************************************)
\* The commit that ends the transcription of caller p.
TrEnds(p) == tr_proc[p].pc = "transcribe" /\ tr_proc'[p].pc # "transcribe"

\* The record of caller p is completed with no error message and the call
\* goes on to return it, or it is failed with an error message and the call
\* has raised.
EndsCompletedOrFailed(p) ==
    LET row == tr_rows'[tr_proc[p].row]
    IN  \/ /\ row.status = "completed"
           /\ row.error_message = None
           /\ tr_proc'[p].pc = "chunk"
        \/ /\ row.status = "failed"
           /\ row.error_message # None
           /\ tr_proc'[p].outcome = "raised"

EveryCallEndsCompletedOrFailed ==
    [][\A p \in TrCallers : TrEnds(p) => EndsCompletedOrFailed(p)]_vars

\* No call that has ended leaves its record in processing.
NoRecordLeftProcessing ==
    \A p \in TrCallers :
        (tr_proc[p].pc = "done" /\ tr_proc[p].row # 0) =>
            tr_rows[tr_proc[p].row].status # "processing"

\* A completed record never changes.
CompletedIsAbsorbing ==
    [][\A i \in 1..Len(tr_rows) :
        tr_rows[i].status = "completed" => tr_rows'[i] = tr_rows[i]]_vars

\* A call that finds the transcription of its file completed returns it and
\* changes no record.
CompletedIsReturnedUnchanged ==
    [][\A p \in TrCallers :
        LET ids == TranscriptionIds(tr_rows, tr_proc[p].file)
        IN  (/\ tr_proc[p].pc = "lookup"
             /\ tr_proc'[p].pc # "lookup"
             /\ Cardinality(ids) = 1
             /\ \A i \in ids : tr_rows[i].status = "completed") =>
                /\ tr_proc'[p].pc = "done"
                /\ tr_proc'[p].outcome = "returned"
                /\ tr_proc'[p].row \in ids
                /\ tr_rows' = tr_rows]_vars

\* C29: the status of a transcription record goes from processing to
\* completed or failed and nowhere else: every transcribe_file call that
\* puts a record into processing ends with the record completed and its
\* error message cleared, or failed with the error message set and the
\* exception re-raised, never with the record in processing; a completed
\* record stays as it is, and a call for a file whose transcription is
\* completed returns that record unchanged without transcribing again.
C29_ProcessingEndsCompletedOrFailed ==
    /\ EveryCallEndsCompletedOrFailed
    /\ []NoRecordLeftProcessing
    /\ CompletedIsAbsorbing
    /\ CompletedIsReturnedUnchanged

\* A record that was completed by one call is failed: a second call found
\* it in processing and failed after the first had completed it.
CompletedRecordTurnedFailed ==
    \E p, q \in TrCallers :
        /\ p # q
        /\ tr_proc[p].row = tr_proc[q].row
        /\ tr_proc[p].row # 0
        /\ tr_proc[p].pc = "done"
        /\ tr_proc[p].outcome = "returned"
        /\ tr_proc[p].loaded.status = "completed"
        /\ tr_proc[p].loaded.full_text = tr_proc[p].run
        /\ tr_proc[q].pc = "done"
        /\ tr_proc[q].outcome = "raised"
        /\ tr_proc[q].err = "Exception"
        /\ tr_rows[tr_proc[p].row].status = "failed"

\* A retry after a failure: the record of a failed call was completed by a
\* later call.
FailedRecordCompletedByRetry ==
    \E p \in TrCallers :
        /\ tr_proc[p].pc = "done"
        /\ tr_proc[p].outcome = "returned"
        /\ tr_proc[p].run > 1
        /\ tr_proc[p].loaded.full_text = tr_proc[p].run
        /\ tr_rows[tr_proc[p].row].status = "completed"
        /\ tr_rows[tr_proc[p].row].error_message = None
        /\ Len(tr_rows) = 1

\* C30: however concurrent transcribe_file calls for one file interleave,
\* the file has at most one transcription record.
C30_AtMostOneTranscriptionPerFile ==
    \A f \in TrFiles : Cardinality(TranscriptionIds(tr_rows, f)) <= 1

\* Two calls for one file have both inserted a record and completed it.
TwoCompletedTranscriptions ==
    /\ Len(tr_rows) = 2
    /\ \A i \in 1..2 : tr_rows[i].file_id = 1 /\ tr_rows[i].status = "completed"
    /\ \A p \in TrCallers : tr_proc[p].pc = "done"

\* A later lookup of the file has raised on the two records.
LookupRaisedOnTwoRecords ==
    \E p \in TrCallers :
        /\ tr_proc[p].pc = "done"
        /\ tr_proc[p].err = "MultipleResultsFound"

\* A record is inserted only by a call whose select found none.
InsertOnlyAfterEmptyLookup ==
    [][Len(tr_rows') > Len(tr_rows) =>
        \E p \in TrCallers :
            /\ tr_proc[p].pc = "insert"
            /\ tr_rows' = Append(tr_rows, NewTranscription(tr_proc[p].file))]_vars

\* The call of caller p returns its transcription after it created n > 0
\* chunks.
ReturnsAfterChunking(p) ==
    /\ tr_proc[p].pc \in {"chunk", "embed"}
    /\ tr_proc'[p].pc = "done"
    /\ tr_proc'[p].outcome = "returned"
    /\ tr_proc'[p].n > 0

FullyEmbeddedAfter(f) ==
    tr_chunks'[f].n > 0 /\ tr_embedded'[f] = tr_chunks'[f].n

\* C22: an ingestion that returns success leaves the document embedded:
\* neither POST /files/{file_id}/embeddings nor the chunk-and-embed step
\* after a completed transcription returns success with chunks of the
\* document that have no embedding.
C22_FailedEmbeddingIsSignalled ==
    [][/\ \A p \in TrCallers :
            ReturnsAfterChunking(p) => FullyEmbeddedAfter(tr_proc[p].file)
       /\ (tr_gen' # tr_gen /\ tr_gen'.status_code = 201) =>
            FullyEmbeddedAfter(tr_gen'.file)]_vars

\* The route answers 201 only after every chunk of the file was embedded.
GenerateRouteSignalsFailure ==
    [][(tr_gen' # tr_gen /\ tr_gen'.status_code = 201) =>
            FullyEmbeddedAfter(tr_gen'.file)]_vars

\* The only call so far returned its transcription with the key set and no
\* chunk of the file embedded: the embedding step raised and was logged.
TranscriptionReturnedUnembedded ==
    \E p \in TrCallers :
        /\ tr_runs = 1
        /\ tr_key
        /\ tr_proc[p].pc = "done"
        /\ tr_proc[p].outcome = "returned"
        /\ tr_proc[p].n > 0
        /\ tr_embedded[tr_proc[p].file] = 0

\* The same without the key: the embedding step was skipped.
EmbeddingSkippedWithoutKey ==
    \E p \in TrCallers :
        /\ tr_runs = 1
        /\ ~tr_key
        /\ tr_proc[p].pc = "done"
        /\ tr_proc[p].outcome = "returned"
        /\ tr_proc[p].n > 0
        /\ tr_embedded[tr_proc[p].file] = 0

\* C23: generating the embeddings of a document without chunks fails with a
\* not-found error, and neither the exception nor the response of that
\* failure is the one of a missing credential or of a usage error.
C23_NoChunksIsNotFoundAndDistinct ==
    /\ tr_gen.cause = "no_chunks" => tr_gen.status_code = 404
    /\ tr_gen.cause \in {"no_api_key", "dimension_mismatch"} =>
        /\ tr_gen.exc # GenerateResponse("no_chunks").exc
        /\ tr_gen.status_code # GenerateResponse("no_chunks").status_code

\* The document without chunks is answered with 404.
NoChunksIsNotFound ==
    tr_gen.cause = "no_chunks" =>
        tr_gen.exc = "ValueError" /\ tr_gen.status_code = 404

\* A failure of the provider is answered differently.
ProviderFailureIsDistinct ==
    tr_gen.cause = "provider" =>
        /\ tr_gen.exc # GenerateResponse("no_chunks").exc
        /\ tr_gen.status_code # GenerateResponse("no_chunks").status_code

\* A document with chunks and no credential was answered with the ValueError
\* and the 404 of the document without chunks.
MissingKeyAnsweredNotFound ==
    /\ tr_gen.cause = "no_api_key"
    /\ tr_chunks[tr_gen.file].n > 0
    /\ tr_gen.exc = "ValueError"
    /\ tr_gen.status_code = 404

====
